---- MODULE Spec2Model ----
(***************************************************************************)
(* Safety escalation engine of the Women-Safety-App main screen            *)
(* (src/Main.tsx, the component src/app.tsx mounts).                       *)
(*                                                                         *)
(* Coordinates are metres along one meridian, so that turf's distance()    *)
(* is the absolute difference of two positions; simulateDeviation's        *)
(* 600/111320 degrees of latitude is 600 of these metres.  Date.now() is   *)
(* the variable now, advanced in steps of TickMs; a response timer that    *)
(* is due fires before time advances further.                              *)
(*                                                                         *)
(* MainApp is a React function component: every function it defines        *)
(* closes over the state of the render that created it.  The effect of     *)
(* lines 75-163 runs once per initialUsername, so the position-feed        *)
(* callback and the notification-response listener keep the state of the   *)
(* render that mounted the component (effectClosure).  Button handlers     *)
(* belong to the latest render and read the current state.                 *)
(***************************************************************************)
EXTENDS Integers, Sequences, FiniteSets, TLC

\* ---------------------------------------------------------------- constants

ROUTE_DEVIATION_THRESHOLD == 1000
RESPONSE_TIMEOUT == 30000
NOTIFICATION_COOLDOWN == 60000
SimulatedOffset == 600
RECORDING_DURATION == 15000
DEBOUNCE_DELAY == 16000

\* ------------------------------------------------------------------- bounds

MaxSessions == 2
MaxTicks == 7
MaxPos == 1200
MaxCalls == 2
MaxCycles == 2
MaxOffsets == 2

TickMs == RESPONSE_TIMEOUT \div 3
\* Date.now() at mount: any epoch time is at least one cooldown after 0.
StartTime == NOTIFICATION_COOLDOWN
MaxNow == StartTime + MaxTicks * TickMs

\* null of a Coordinates | null value, and of a timer handle
NoCoord == 0 - 1
NoTimer == 0

FeedPositions == {0, 600}
DestPositions == {200, 1700}
ContactLists == {<<>>, <<"9000000001">>}
ActionIds == {"SEND_ALERT", "IM_SAFE", "DEFAULT"}
Sessions == 1..MaxSessions

VARIABLES
    location,              \* useState location (NoCoord = null)
    destination,           \* useState destination.coordinates
    emergencyContacts,     \* useState emergencyContacts
    effectClosure,         \* state seen by the closures the mount effect made
    setupPc,               \* position of the async setup() of the effect
    subscribed,            \* locationSubscription is delivering samples
    listening,             \* responseListener is registered
    mounted,               \* the component is mounted (no cleanup yet)
    responseTimer,         \* responseTimer.current
    lastNotificationTime,  \* lastNotificationTime.current
    now,                   \* Date.now()
    sess,                  \* one record per showDeviationNotification call
    nextSession,           \* number of showDeviationNotification calls
    alertLog,              \* the sendEmergencyAlert invocations, in order
    ev,                    \* the last stimulus handled, when it is a position
                           \* sample, a timer expiry or a user response
    \* one call of a dispatcher, followed through its awaits
    dispatchCall,          \* the dispatcher called and what it reads
    dispatchPc,            \* position of the call
    channel,               \* what the SMS module answered to the call
    message,               \* the message it composed
    smsCalls,              \* the SMS.sendSMSAsync calls made, in order
    reports,               \* what the call surfaced (notification / log)
    \* VoiceService (src/src/services/VoiceService.ts lines 44-249)
    recording,             \* this.recording (0 = null, else a recorder)
    isRecording,           \* this.isRecording
    lastRecordingTime,     \* this.lastRecordingTime
    call,                  \* the startFullRecording calls and their timers
    recorder,              \* the Audio.Recording objects the calls created
    teardown,              \* stopListening(): how far it is, on which recorder
    voiceLog,              \* per call: what became of its recording
    \* the recorder of the main screen (src/Main.tsx lines 406-532)
    audioRecorderRef,      \* audioRecorderRef.current (0 = null)
    isRecordingState,      \* useState isRecording
    speech,                \* the onSpeechResults calls that found a keyword
    audioRecorder,         \* the Audio.Recording objects they created
    recordingTimers,       \* the pending setTimeouts of line 471, oldest first
    speechLog,             \* per call: what became of its recording
    \* the sampling VoiceService (VoiceService.ts lines 290-551)
    sampler                \* its fields, calls, callbacks, recorders, timers

mainVars == <<location, destination, emergencyContacts, effectClosure, setupPc,
              subscribed, listening, mounted, responseTimer,
              lastNotificationTime, sess, nextSession, alertLog, ev>>

dispatchVars == <<dispatchCall, dispatchPc, channel, message, smsCalls, reports>>

voiceVars == <<recording, isRecording, lastRecordingTime, call, recorder,
               teardown, voiceLog>>

speechVars == <<audioRecorderRef, isRecordingState, speech, audioRecorder,
                recordingTimers, speechLog>>

listenVars == <<sampler>>

vars == <<mainVars, now, dispatchVars, voiceVars, speechVars, listenVars>>

NoSession ==
    [phase |-> "idle", loc |-> NoCoord, createdAt |-> 0, deadline |-> 0,
     prompt |-> FALSE, safe |-> FALSE, responded |-> FALSE,
     contacts |-> <<>>]

MainInit ==
    /\ location = NoCoord
    /\ destination = NoCoord
    /\ emergencyContacts = <<>>
    /\ effectClosure = [location |-> NoCoord, destination |-> NoCoord,
                        contacts |-> <<>>]
    /\ setupPc = "tracking"
    /\ subscribed = FALSE
    /\ listening = FALSE
    /\ mounted = TRUE
    /\ responseTimer = NoTimer
    /\ lastNotificationTime = 0
    /\ now = StartTime
    /\ sess = [s \in Sessions |-> NoSession]
    /\ nextSession = 0
    /\ alertLog = <<>>
    /\ ev = [type |-> "other", session |-> 0]

\* no dispatcher call is being followed
NoDispatch ==
    [who |-> "none", contacts |-> <<>>, location |-> NoCoord, audioUrl |-> "",
     address |-> ""]

NoAnswer == [available |-> "unasked", result |-> "uncalled"]

DispatchIdle ==
    /\ dispatchCall = NoDispatch
    /\ dispatchPc = "none"
    /\ channel = NoAnswer
    /\ message = <<>>
    /\ smsCalls = <<>>
    /\ reports = <<>>

\* the startFullRecording calls followed, and the Audio.Recording object each
\* of them creates at line 123 (recorder c is the one call c created)
Calls == 1..MaxCalls

\* null of this.recording
NoRecorder == 0

\* a call not made yet: pc is the await it is suspended at, now the Date.now()
\* of its line 108, obj the recorder its pending native call was made on,
\* due the time its setTimeout fires, started whether it reached line 128
NoCall ==
    [pc |-> "idle", now |-> 0, obj |-> NoRecorder, due |-> 0, started |-> FALSE]

\* an Audio.Recording object not created yet: startedBy is the call whose
\* startAsync started it, stoppedBy what stopped it, full whether it had been
\* recording for RECORDING_DURATION by then
NoRecording ==
    [status |-> "none", startedBy |-> 0, stoppedBy |-> "none", full |-> FALSE]

VoiceIdle ==
    /\ recording = NoRecorder
    /\ isRecording = FALSE
    /\ lastRecordingTime = 0
    /\ call = [c \in Calls |-> NoCall]
    /\ recorder = [c \in Calls |-> NoRecording]
    /\ teardown = [pc |-> "listening", obj |-> NoRecorder]
    /\ voiceLog = [c \in Calls |-> "none"]

\* an onSpeechResults call not made yet: pc is the await it is suspended at,
\* obj the recorder its pending stopAndUnloadAsync was called on
NoSpeech == [pc |-> "idle", obj |-> NoRecorder]

\* an Audio.Recording object the main screen has not created yet
NoAudioRecorder == [status |-> "none", stoppedBy |-> "none"]

SpeechIdle ==
    /\ audioRecorderRef = NoRecorder
    /\ isRecordingState = FALSE
    /\ speech = [c \in Calls |-> NoSpeech]
    /\ audioRecorder = [c \in Calls |-> NoAudioRecorder]
    /\ recordingTimers = <<>>
    /\ speechLog = [c \in Calls |-> "none"]

\* an interval callback as it is entered: pc is the await it is suspended
\* at, obj the recorder its pending stopAndUnloadAsync was called on
NoCallback == [pc |-> "idle", obj |-> NoRecorder]

\* the sampling VoiceService after construction: the fields of lines
\* 291-296 (0 = null), the setIntervals not cleared, the startListening
\* calls made, the interval callbacks that ran with the Audio.Recording
\* each may create and what became of it, the pending setTimeouts of line
\* 447 oldest first
ListenIdle ==
    sampler = [isListening |-> FALSE,
               isRecordingSnippet |-> FALSE,
               listeningInterval |-> 0,
               intervals |-> {},
               snippetRecording |-> NoRecorder,
               recording |-> NoRecorder,
               starts |-> <<>>,
               cb |-> <<>>,
               recorder |-> <<>>,
               timers |-> <<>>,
               log |-> <<>>]

\* ------------------------------------------------------------------ helpers

\* truthiness of a Coordinates | null value (location, currentLocation)
HasCoordinates(c) == c /= NoCoord

\* the destination test answering "set" for a null destination
DestinationSetAlways(d) == TRUE

\* truthiness of destination.coordinates
DestinationSet(d) == d /= NoCoord

\* distance(...) * 1000 of turf, in metres, on the model's meridian
Distance(a, b) == IF a >= b THEN a - b ELSE b - a

\* the cooldown test measured against the response window instead
CooldownActiveShort(t, last) == t - last < RESPONSE_TIMEOUT

\* now - lastNotificationTime.current < NOTIFICATION_COOLDOWN
CooldownActive(t, last) == t - last < NOTIFICATION_COOLDOWN

\* the threshold test with >= in place of >
DeviatesInclusive(d) == d >= ROUTE_DEVIATION_THRESHOLD

\* deviationDistance > ROUTE_DEVIATION_THRESHOLD
Deviates(d) == d > ROUTE_DEVIATION_THRESHOLD

\* the listener reading the location of the latest render
ListenerLocationCurrent == location

\* `location` as the response listener reads it: the listener is created by
\* the mount effect and closes over that render's state.
ListenerLocation == effectClosure.location

\* `emergencyContacts` as the listener's sendEmergencyAlert reads it
ListenerContacts == effectClosure.contacts

\* `destination.coordinates` as the watchPositionAsync callback reads it
FeedDestination == effectClosure.destination

\* clearTimeout(h): a timer that is still armed is cancelled, anything else
\* (null, a fired or an already cleared handle) is left alone.
ClearTimeout(S, h, why) ==
    IF h \in Sessions /\ S[h].phase = "pending"
    THEN [S EXCEPT ![h].phase = why]
    ELSE S

\* sendEmergencyAlert(currentLocation): the invocation and how far it gets
\* before the delivery channel is involved.
sendEmergencyAlert(s, currentLocation, contacts, cause) ==
    [session |-> s, loc |-> currentLocation, cause |-> cause,
     outcome |-> IF Len(contacts) = 0 THEN "NoContacts"
                 ELSE IF ~HasCoordinates(currentLocation) THEN "NoLocation"
                 ELSE "Attempt"]

\* how an invocation that reached the delivery channel ends: with the
\* notification of lines 628-637 ("Sent") or in the catch of lines 641-650
\* ("Failed"); either way sendEmergencyAlert returns normally to its caller
DeliveryOutcomes == {"Sent", "Failed"}

Deliveries(a) ==
    IF a.outcome = "Attempt"
    THEN {[a EXCEPT !.outcome = r] : r \in DeliveryOutcomes}
    ELSE {a}

AlertsOf(s) == {i \in DOMAIN alertLog : alertLog[i].session = s}
AlertCount(s) == Cardinality(AlertsOf(s))

Open(s) == sess[s].phase \in {"scheduling", "pending"}
Armed(s) == sess[s].phase = "pending"

\* ------------------------------------------------------------ setup (75-163)

\* startLocationTracking: first fix, then the feed subscription
StartLocationTracking(p) ==
    /\ mounted /\ setupPc = "tracking"
    /\ location' = p
    /\ subscribed' = TRUE
    /\ setupPc' = "contacts"
    /\ ev' = [type |-> "other", session |-> 0]
    /\ UNCHANGED <<destination, emergencyContacts, effectClosure, listening,
                   mounted, responseTimer, lastNotificationTime, now, sess,
                   nextSession, alertLog>>
    /\ UNCHANGED <<dispatchVars, voiceVars, speechVars, listenVars>>

\* loadEmergencyContacts
LoadEmergencyContacts(cs) ==
    /\ mounted /\ setupPc = "contacts"
    /\ emergencyContacts' = cs
    /\ setupPc' = "listeners"
    /\ ev' = [type |-> "other", session |-> 0]
    /\ UNCHANGED <<location, destination, effectClosure, subscribed, listening,
                   mounted, responseTimer, lastNotificationTime, now, sess,
                   nextSession, alertLog>>
    /\ UNCHANGED <<dispatchVars, voiceVars, speechVars, listenVars>>

\* addNotificationResponseReceivedListener
RegisterListeners ==
    /\ mounted /\ setupPc = "listeners"
    /\ listening' = TRUE
    /\ setupPc' = "done"
    /\ ev' = [type |-> "other", session |-> 0]
    /\ UNCHANGED <<location, destination, emergencyContacts, effectClosure,
                   subscribed, mounted, responseTimer, lastNotificationTime,
                   now, sess, nextSession, alertLog>>
    /\ UNCHANGED <<dispatchVars, voiceVars, speechVars, listenVars>>

\* native stopAndUnloadAsync on the main screen's recorder r, on behalf of
\* `by`
Unloaded(R, r, by) ==
    IF r /= NoRecorder /\ R[r].status = "recording"
    THEN [R EXCEPT ![r].status = "stopped", ![r].stoppedBy = by]
    ELSE R

\* the effect's cleanup (lines 152-162): the feed and the listeners are
\* removed, the timer the ref holds is cleared, the recorder the ref holds
\* is stopped; the ref, and the setTimeout of line 471, stay as they are
Unmount ==
    /\ mounted
    /\ mounted' = FALSE
    /\ subscribed' = FALSE
    /\ listening' = FALSE
    /\ sess' = ClearTimeout(sess, responseTimer, "cancelledByTeardown")
    /\ ev' = [type |-> "other", session |-> 0]
    /\ audioRecorder' = Unloaded(audioRecorder, audioRecorderRef, "teardown")
    /\ UNCHANGED <<location, destination, emergencyContacts, effectClosure,
                   setupPc, responseTimer, lastNotificationTime, now,
                   nextSession, alertLog>>
    /\ UNCHANGED <<audioRecorderRef, isRecordingState, speech,
                   recordingTimers, speechLog>>
    /\ UNCHANGED <<dispatchVars, voiceVars, listenVars>>

\* ------------------------------------------------- deviation detector

\* showDeviationNotification up to its await: the previous timer is cleared
\* (the ref keeps the handle) and the prompt is requested.
ShowDeviationNotificationBegin(currentLocation) ==
    /\ nextSession < MaxSessions
    /\ nextSession' = nextSession + 1
    /\ sess' = [ClearTimeout(sess, responseTimer, "cancelledByNewEvent")
                  EXCEPT ![nextSession + 1] =
                    [NoSession EXCEPT !.phase = "scheduling",
                                      !.loc = currentLocation,
                                      !.createdAt = now,
                                      !.contacts = emergencyContacts]]
    /\ UNCHANGED <<responseTimer, alertLog>>

\* checkRouteDeviation(currentLocation) against the destination `dest` its
\* closure holds; line 763 stamps lastNotificationTime before line 764 raises
\* the event (the unstamped variant raises it without the stamp)
checkRouteDeviationUnstamped(currentLocation, dest) ==
    IF ~DestinationSet(dest)
    THEN UNCHANGED <<lastNotificationTime, sess, nextSession, responseTimer,
                     alertLog>>
    ELSE IF CooldownActive(now, lastNotificationTime)
    THEN UNCHANGED <<lastNotificationTime, sess, nextSession, responseTimer,
                     alertLog>>
    ELSE IF Deviates(Distance(currentLocation, dest))
    THEN /\ lastNotificationTime' = lastNotificationTime
         /\ ShowDeviationNotificationBegin(currentLocation)
    ELSE UNCHANGED <<lastNotificationTime, sess, nextSession, responseTimer,
                     alertLog>>
checkRouteDeviation(currentLocation, dest) ==
    IF ~DestinationSet(dest)
    THEN UNCHANGED <<lastNotificationTime, sess, nextSession, responseTimer,
                     alertLog>>
    ELSE IF CooldownActive(now, lastNotificationTime)
    THEN UNCHANGED <<lastNotificationTime, sess, nextSession, responseTimer,
                     alertLog>>
    ELSE IF Deviates(Distance(currentLocation, dest))
    THEN /\ lastNotificationTime' = now
         /\ ShowDeviationNotificationBegin(currentLocation)
    ELSE UNCHANGED <<lastNotificationTime, sess, nextSession, responseTimer,
                     alertLog>>

\* the watchPositionAsync callback
FeedSample(p) ==
    /\ subscribed
    /\ location' = p
    /\ IF DestinationSet(FeedDestination)
       THEN checkRouteDeviation(p, FeedDestination)
       ELSE UNCHANGED <<lastNotificationTime, sess, nextSession,
                        responseTimer, alertLog>>
    /\ ev' = [type |-> "feed", session |-> 0]
    /\ UNCHANGED <<destination, emergencyContacts, effectClosure, setupPc,
                   subscribed, listening, mounted, now>>
    /\ UNCHANGED <<dispatchVars, voiceVars, speechVars, listenVars>>

\* the "simulate deviation" button
simulateDeviation ==
    /\ mounted
    /\ HasCoordinates(location)
    /\ location + SimulatedOffset <= MaxPos
    /\ location' = location + SimulatedOffset
    /\ IF DestinationSet(destination)
       THEN checkRouteDeviation(location + SimulatedOffset, destination)
       ELSE UNCHANGED <<lastNotificationTime, sess, nextSession,
                        responseTimer, alertLog>>
    /\ ev' = [type |-> "simulate", session |-> 0]
    /\ UNCHANGED <<destination, emergencyContacts, effectClosure, setupPc,
                   subscribed, listening, mounted, now>>
    /\ UNCHANGED <<dispatchVars, voiceVars, speechVars, listenVars>>

\* handleSetDestination / setDestinationCoordinates with a geocoded address
handleSetDestination(d) ==
    /\ mounted
    /\ HasCoordinates(location)
    /\ destination' = d
    /\ ev' = [type |-> "other", session |-> 0]
    /\ UNCHANGED <<location, emergencyContacts, effectClosure, setupPc,
                   subscribed, listening, mounted, responseTimer,
                   lastNotificationTime, now, sess, nextSession, alertLog>>
    /\ UNCHANGED <<dispatchVars, voiceVars, speechVars, listenVars>>

\* ------------------------------------------------ escalation controller

\* the notification gateway presents the prompt requested at line 543
PromptShown(s) ==
    /\ sess[s].phase = "scheduling"
    /\ ~sess[s].prompt
    /\ sess' = [sess EXCEPT ![s].prompt = TRUE]
    /\ ev' = [type |-> "other", session |-> 0]
    /\ UNCHANGED <<location, destination, emergencyContacts, effectClosure,
                   setupPc, subscribed, listening, mounted, responseTimer,
                   lastNotificationTime, now, nextSession, alertLog>>
    /\ UNCHANGED <<dispatchVars, voiceVars, speechVars, listenVars>>

\* showDeviationNotification after its await: the response timer is armed
ShowDeviationNotificationResume(s) ==
    /\ sess[s].phase = "scheduling"
    /\ sess[s].prompt
    /\ sess' = [sess EXCEPT ![s].phase = "pending",
                            ![s].deadline = now + RESPONSE_TIMEOUT]
    /\ responseTimer' = s
    /\ ev' = [type |-> "other", session |-> 0]
    /\ UNCHANGED <<location, destination, emergencyContacts, effectClosure,
                   setupPc, subscribed, listening, mounted,
                   lastNotificationTime, now, nextSession, alertLog>>
    /\ UNCHANGED <<dispatchVars, voiceVars, speechVars, listenVars>>

\* a catch that sends the alert and arms the response timer as well
ShowDeviationNotificationCatchArming(s) ==
    /\ sess[s].phase = "scheduling"
    /\ ~sess[s].prompt
    /\ sess' = [sess EXCEPT ![s].phase = "pending",
                            ![s].deadline = now + RESPONSE_TIMEOUT]
    /\ responseTimer' = s
    /\ \E a \in Deliveries(sendEmergencyAlert(s, sess[s].loc,
                                                sess[s].contacts, "catch")) :
          alertLog' = Append(alertLog, a)
    /\ ev' = [type |-> "other", session |-> 0]
    /\ UNCHANGED <<location, destination, emergencyContacts, effectClosure,
                   setupPc, subscribed, listening, mounted,
                   lastNotificationTime, now, nextSession>>
    /\ UNCHANGED <<dispatchVars, voiceVars, speechVars, listenVars>>

\* showDeviationNotification's catch: scheduling the prompt was rejected
ShowDeviationNotificationCatch(s) ==
    /\ sess[s].phase = "scheduling"
    /\ ~sess[s].prompt
    /\ sess' = [sess EXCEPT ![s].phase = "failed"]
    /\ \E a \in Deliveries(sendEmergencyAlert(s, sess[s].loc,
                                                sess[s].contacts, "catch")) :
          alertLog' = Append(alertLog, a)
    /\ ev' = [type |-> "other", session |-> 0]
    /\ UNCHANGED <<location, destination, emergencyContacts, effectClosure,
                   setupPc, subscribed, listening, mounted, responseTimer,
                   lastNotificationTime, now, nextSession>>
    /\ UNCHANGED <<dispatchVars, voiceVars, speechVars, listenVars>>

\* the coordinate the setTimeout callback passes to sendEmergencyAlert at
\* line 562: the parameter currentLocation of the showDeviationNotification
\* call that created the timer, not the component's location state
TimerLocationLatest(s) == location
TimerLocation(s) == sess[s].loc

\* a timer callback that arms itself again when the dispatch failed
ResponseTimeoutRetrying(s) ==
    /\ sess[s].phase = "pending"
    /\ now >= sess[s].deadline
    /\ IF responseTimer /= NoTimer
       THEN \E a \in Deliveries(sendEmergencyAlert(s, TimerLocation(s),
                                                   sess[s].contacts, "timer")) :
               /\ alertLog' = Append(alertLog, a)
               /\ sess' = IF a.outcome = "Failed" /\ AlertCount(s) = 0
                          THEN sess
                          ELSE [sess EXCEPT ![s].phase = "fired"]
       ELSE /\ alertLog' = alertLog
            /\ sess' = [sess EXCEPT ![s].phase = "fired"]
    /\ ev' = [type |-> "timeout", session |-> s]
    /\ UNCHANGED <<location, destination, emergencyContacts, effectClosure,
                   setupPc, subscribed, listening, mounted, responseTimer,
                   lastNotificationTime, now, nextSession>>
    /\ UNCHANGED <<dispatchVars, voiceVars, speechVars, listenVars>>

\* a timer callback that arms the timer anew when its dispatch failed
ResponseTimeoutRearming(s) ==
    /\ sess[s].phase = "pending"
    /\ now >= sess[s].deadline
    /\ IF responseTimer /= NoTimer
       THEN \E a \in Deliveries(sendEmergencyAlert(s, TimerLocation(s),
                                                   sess[s].contacts, "timer")) :
               /\ alertLog' = Append(alertLog, a)
               /\ sess' = IF a.outcome = "Failed" /\ AlertCount(s) = 0
                          THEN [sess EXCEPT
                                  ![s].deadline = now + RESPONSE_TIMEOUT]
                          ELSE [sess EXCEPT ![s].phase = "fired"]
       ELSE /\ alertLog' = alertLog
            /\ sess' = [sess EXCEPT ![s].phase = "fired"]
    /\ ev' = [type |-> "timeout", session |-> s]
    /\ UNCHANGED <<location, destination, emergencyContacts, effectClosure,
                   setupPc, subscribed, listening, mounted, responseTimer,
                   lastNotificationTime, now, nextSession>>
    /\ UNCHANGED <<dispatchVars, voiceVars, speechVars, listenVars>>

\* the setTimeout callback of lines 558-571
ResponseTimeout(s) ==
    /\ sess[s].phase = "pending"
    /\ now >= sess[s].deadline
    /\ sess' = [sess EXCEPT ![s].phase = "fired"]
    /\ IF responseTimer /= NoTimer
       THEN \E a \in Deliveries(sendEmergencyAlert(s, TimerLocation(s),
                                                   sess[s].contacts, "timer")) :
               alertLog' = Append(alertLog, a)
       ELSE alertLog' = alertLog
    /\ ev' = [type |-> "timeout", session |-> s]
    /\ UNCHANGED <<location, destination, emergencyContacts, effectClosure,
                   setupPc, subscribed, listening, mounted, responseTimer,
                   lastNotificationTime, now, nextSession>>
    /\ UNCHANGED <<dispatchVars, voiceVars, speechVars, listenVars>>

\* the notification-response listener of lines 93-136, for a response to the
\* prompt of session s
NotificationResponse(actionId, s) ==
    /\ listening
    /\ sess[s].prompt
    /\ responseTimer' = NoTimer
    /\ sess' = [t \in Sessions |->
                 LET c == ClearTimeout(sess, responseTimer, "cancelledByResponse")[t]
                 IN [c EXCEPT !.responded = (@ \/ Open(t)),
                              !.safe = (@ \/ (t = s /\ actionId = "IM_SAFE" /\ Open(t)))]]
    /\ IF actionId = "SEND_ALERT" /\ HasCoordinates(ListenerLocation)
       THEN \E a \in Deliveries(sendEmergencyAlert(s, ListenerLocation,
                                                   ListenerContacts, "manual")) :
               alertLog' = Append(alertLog, a)
       ELSE alertLog' = alertLog
    /\ lastNotificationTime' =
          IF actionId = "IM_SAFE" /\ ~CooldownActive(now, lastNotificationTime)
          THEN now
          ELSE lastNotificationTime
    /\ ev' = [type |-> actionId, session |-> s]
    /\ UNCHANGED <<location, destination, emergencyContacts, effectClosure,
                   setupPc, subscribed, listening, mounted, now, nextSession>>
    /\ UNCHANGED <<dispatchVars, voiceVars, speechVars, listenVars>>

\* time passes; a timer that is due fires first
Tick ==
    /\ now + TickMs <= MaxNow
    /\ \A s \in Sessions : Armed(s) => sess[s].deadline > now
    /\ now' = now + TickMs
    /\ ev' = [type |-> "other", session |-> 0]
    /\ UNCHANGED <<location, destination, emergencyContacts, effectClosure,
                   setupPc, subscribed, listening, mounted, responseTimer,
                   lastNotificationTime, sess, nextSession, alertLog>>
    /\ UNCHANGED <<dispatchVars, voiceVars, speechVars, listenVars>>

Init == MainInit /\ DispatchIdle /\ VoiceIdle /\ SpeechIdle /\ ListenIdle

Next ==
    \/ \E p \in FeedPositions : StartLocationTracking(p)
    \/ \E cs \in ContactLists : LoadEmergencyContacts(cs)
    \/ RegisterListeners
    \/ Unmount
    \/ \E p \in FeedPositions : FeedSample(p)
    \/ simulateDeviation
    \/ \E d \in DestPositions : handleSetDestination(d)
    \/ \E s \in Sessions : PromptShown(s)
    \/ \E s \in Sessions : ShowDeviationNotificationResume(s)
    \/ \E s \in Sessions : ShowDeviationNotificationCatch(s)
    \/ \E s \in Sessions : ResponseTimeout(s)
    \/ \E a \in ActionIds, s \in Sessions : NotificationResponse(a, s)
    \/ Tick

Spec == Init /\ [][Next]_vars

\* ------------------------------------------------------------ dispatchers
\*
\* One call of sendEmergencyAlert (src/Main.tsx lines 579-651) or of
\* VoiceService.sendAudioToContacts (VoiceService.ts lines 228-248),
\* followed through its awaits.  A string the code builds is the sequence
\* of its segments; a phone number is the sequence of its parts, "+" first
\* when it has one.

\* the initialUsername prop
DisplayName == "Asha"

LocalNumber == <<"9000000001">>
InternationalNumber == <<"+", "919000000002">>
ContactBooks == {<<>>, <<LocalNumber>>, <<InternationalNumber, LocalNumber>>}

\* destination.address: '' until a destination is set
Addresses == {"", "Home"}

\* audioUrl?: undefined (falsy, like '') or the public URL of an upload
NoUrl == ""
AudioUrls == {"https://storage.example/emergency.m4a"}

\* the calls followed: sendEmergencyAlert takes a Coordinates, its callers
\* test it (lines 105, 509, 562); sendAudioToContacts takes location? and a
\* URL its caller tested (line 159), and reads no destination
DispatchCalls ==
    [who : {"sendEmergencyAlert"}, contacts : ContactBooks,
     location : FeedPositions, audioUrl : AudioUrls \cup {NoUrl},
     address : Addresses]
    \cup
    [who : {"sendAudioToContacts"}, contacts : ContactBooks,
     location : FeedPositions \cup {NoCoord}, audioUrl : AudioUrls,
     address : {""}]

\* answers of SMS.isAvailableAsync() and SMS.sendSMSAsync()
AvailabilityAnswers == {"available", "unavailable", "throws"}
SendAnswers == {"sent", "cancelled", "unknown", "throws"}

Range(f) == {f[i] : i \in DOMAIN f}

\* a contact list the length test lets through whatever its length
NoContactsNever(cs) == FALSE

\* emergencyContacts.length === 0 (Main.tsx line 583, VoiceService.ts 229)
NoContacts(cs) == Len(cs) = 0

\* `${c.latitude}` and `${c.longitude}` of a position on the model's meridian
Latitude(c) == ToString(c)
Longitude(c) == ToString(0)

MapLink(c) ==
    <<"https://www.openstreetmap.org/?mlat=", Latitude(c), "&mlon=",
      Longitude(c)>>

\* Main.tsx lines 608-612
AlertMessage(c) ==
    LET destinationName == IF c.address /= "" THEN c.address
                           ELSE "unknown location"
    IN  <<"EMERGENCY", ": Route deviation detected for ", DisplayName,
          " near ", destinationName, ". Current location: ">>
        \o MapLink(c.location)
        \o (IF c.audioUrl /= "" THEN <<"\nEmergency recording: ", c.audioUrl>>
            ELSE <<>>)

\* VoiceService.ts line 234
VoiceMessage(c) ==
    <<"EMERGENCY", ": Voice alert triggered. Audio: ", c.audioUrl>>
    \o (IF HasCoordinates(c.location)
        THEN <<" - Location: ">> \o MapLink(c.location)
        ELSE <<>>)

ComposeMessage(c) ==
    IF c.who = "sendEmergencyAlert" THEN AlertMessage(c) ELSE VoiceMessage(c)

\* a country code put before every number, whatever it starts with
WithCountryCodeAlways(n) == <<"+", "91">> \o n

\* Main.tsx lines 617-621: '+91' is put before a number without a '+'
WithCountryCode(n) ==
    IF Len(n) > 0 /\ n[1] = "+" THEN n ELSE <<"+", "91">> \o n

\* a recipient list that stops after the first contact
PhoneNumbersFirstOnly(c) ==
    IF c.who = "sendEmergencyAlert"
    THEN <<WithCountryCode(c.contacts[1])>>
    ELSE <<c.contacts[1]>>

\* the phoneNumbers array: Main.tsx lines 616-623, VoiceService.ts line 235
PhoneNumbers(c) ==
    IF c.who = "sendEmergencyAlert"
    THEN [i \in DOMAIN c.contacts |-> WithCountryCode(c.contacts[i])]
    ELSE c.contacts

\* what the call surfaces when the contact list is empty: the notification
\* of Main.tsx lines 585-591, the console.error of VoiceService.ts line 230
NoContactsReport(who) ==
    IF who = "sendEmergencyAlert"
    THEN "Alert Failed: No emergency contacts available to send alerts to"
    ELSE "No emergency contacts"

\* what the call surfaces when a channel call throws: the notification of
\* the catch at Main.tsx lines 641-649, the console.error of VoiceService.ts
\* line 246
FailedReport(who) ==
    IF who = "sendEmergencyAlert"
    THEN "Alert Failed: Failed to send emergency alert"
    ELSE "Error sending SMS"

\* what the call surfaces when isAvailableAsync answers false: Main.tsx line
\* 639 throws into the same catch; VoiceService.ts line 243 logs
UnavailableReport(who) ==
    IF who = "sendEmergencyAlert"
    THEN FailedReport(who)
    ELSE "SMS not available"

\* what the call surfaces after sendSMSAsync: Main.tsx lines 628-637 (the
\* result decides), VoiceService.ts line 241 (the result is not read)
SendReport(who, r) ==
    IF r = "throws" THEN FailedReport(who)
    ELSE IF who = "sendAudioToContacts" THEN "Audio alert sent"
    ELSE IF r = "sent" THEN "Alert Sent"
    ELSE "Alert Status: Message prepared"

DispatchInit ==
    /\ MainInit
    /\ VoiceIdle
    /\ SpeechIdle
    /\ ListenIdle
    /\ dispatchCall \in DispatchCalls
    /\ dispatchPc = "called"
    /\ channel = NoAnswer
    /\ message = <<>>
    /\ smsCalls = <<>>
    /\ reports = <<>>

\* from the entry of the dispatcher to its first await on the SMS module
DispatchEntry ==
    /\ dispatchPc = "called"
    /\ IF NoContacts(dispatchCall.contacts)
       THEN /\ reports' = Append(reports, NoContactsReport(dispatchCall.who))
            /\ dispatchPc' = "returned"
            /\ message' = message
       ELSE /\ message' = ComposeMessage(dispatchCall)
            /\ dispatchPc' = "isAvailableAsync"
            /\ reports' = reports
    /\ UNCHANGED <<dispatchCall, channel, smsCalls, mainVars, now, voiceVars,
                   speechVars, listenVars>>

\* SMS.isAvailableAsync() answers a; when it is available sendSMSAsync is
\* called with the recipients and the message
IsAvailableResult(a) ==
    /\ dispatchPc = "isAvailableAsync"
    /\ channel' = [channel EXCEPT !.available = a]
    /\ IF a = "available"
       THEN /\ smsCalls' = Append(smsCalls,
                             [numbers |-> PhoneNumbers(dispatchCall),
                              message |-> message])
            /\ dispatchPc' = "sendSMSAsync"
            /\ reports' = reports
       ELSE /\ smsCalls' = smsCalls
            /\ dispatchPc' = "returned"
            /\ reports' = Append(reports,
                            IF a = "unavailable"
                            THEN UnavailableReport(dispatchCall.who)
                            ELSE FailedReport(dispatchCall.who))
    /\ UNCHANGED <<dispatchCall, message, mainVars, now, voiceVars,
                   speechVars, listenVars>>

\* SMS.sendSMSAsync() answers r (or throws)
SendSMSResult(r) ==
    /\ dispatchPc = "sendSMSAsync"
    /\ channel' = [channel EXCEPT !.result = r]
    /\ reports' = Append(reports, SendReport(dispatchCall.who, r))
    /\ dispatchPc' = "returned"
    /\ UNCHANGED <<dispatchCall, message, smsCalls, mainVars, now, voiceVars,
                   speechVars, listenVars>>

DispatchNext ==
    \/ DispatchEntry
    \/ \E a \in AvailabilityAnswers : IsAvailableResult(a)
    \/ \E r \in SendAnswers : SendSMSResult(r)

DispatchSpec == DispatchInit /\ [][DispatchNext]_vars

\* ----------------------------------------------------------- VoiceService
\*
\* The debounced VoiceService (VoiceService.ts lines 44-249).  Each await
\* of startFullRecording, stopRecordingAndSend and stopAndCleanupRecording
\* is a point where other calls run; a native call of expo-av may succeed
\* or throw, and settles before the clock moves on, while an upload or a
\* dispatch can take any time.
\* stopAndCleanupRecording's two awaits (getStatusAsync, stopAndUnloadAsync)
\* complete in one step.

\* The clock of the voice pipeline visits the instants that lie a few
\* buffers (DEBOUNCE_DELAY - RECORDING_DURATION) after a whole number of
\* recording durations: a timer set at one of them is due at one of them.
VoiceTickMs == DEBOUNCE_DELAY - RECORDING_DURATION
VoiceInstants ==
    {StartTime + a * RECORDING_DURATION + b * VoiceTickMs :
        a \in 0..MaxCycles, b \in 0..MaxOffsets}
NextInstant(t) ==
    CHOOSE i \in VoiceInstants :
        i > t /\ \A j \in VoiceInstants : j > t => i <= j

\* the awaits on expo-av (the permission request and the native recorder)
NativeAwaits ==
    {"requestPermissions", "hardReset", "prepareToRecordAsync", "startAsync",
     "catchCleanup", "stopAndUnloadAsync", "finalCleanup"}

\* the guard of line 110
Debounced(t) == isRecording \/ t - lastRecordingTime < DEBOUNCE_DELAY

\* native stopAndUnloadAsync on recorder r, on behalf of `by`
Stopped(R, r, by) ==
    IF r /= NoRecorder /\ R[r].status = "recording"
    THEN [R EXCEPT ![r].status = "stopped", ![r].stoppedBy = by,
                   ![r].full = (now >= call[R[r].startedBy].due)]
    ELSE R

\* stopAndCleanupRecording (lines 88-105) after its awaits, entered with
\* this.recording = r: the recorder is stopped if its status says it is
\* recording (lines 92-96)
AfterCleanup(R, r, by) == Stopped(R, r, by)

\* lines 123-124: this.recording = new Audio.Recording(), then the await of
\* prepareToRecordAsync
BeginPrepare(c, R) ==
    /\ recording' = c
    /\ recorder' = [R EXCEPT ![c].status = "preparing"]
    /\ call' = [call EXCEPT ![c].pc = "prepareToRecordAsync", ![c].obj = c]

\* the catch of lines 135-138: await this.stopAndCleanupRecording()
BeginCatch(c) ==
    /\ call' = [call EXCEPT ![c].pc = IF recording = NoRecorder THEN "failed"
                                      ELSE "catchCleanup",
                            ![c].obj = recording]
    /\ UNCHANGED <<recording, isRecording, lastRecordingTime>>

\* the finally of line 168: await this.stopAndCleanupRecording()
BeginFinally(c) ==
    call' = [call EXCEPT ![c].pc = IF recording = NoRecorder THEN "done"
                                   ELSE "finalCleanup",
                         ![c].obj = recording]

\* a startFullRecording that stamps lastRecordingTime as soon as the guard
\* of line 109 lets the call through
StartFullRecordingStamping(c) ==
    /\ call[c].pc = "idle"
    /\ teardown.pc = "listening"
    /\ \A b \in Calls : b < c => call[b].pc /= "idle"
    /\ call' = [call EXCEPT ![c].now = now,
                            ![c].pc = IF Debounced(now) THEN "debounced"
                                      ELSE "requestPermissions"]
    /\ lastRecordingTime' = IF Debounced(now) THEN lastRecordingTime ELSE now
    /\ UNCHANGED <<recording, isRecording, recorder,
                   teardown, voiceLog, now, mainVars, dispatchVars,
                   speechVars, listenVars>>

\* a trigger detection calls startFullRecording: lines 107-115.  Triggers
\* come from the WebView the screen shows while voice mode is on
\* (src/unnamed/part_000 lines 475-484, 585-597).
StartFullRecording(c) ==
    /\ call[c].pc = "idle"
    /\ teardown.pc = "listening"
    /\ \A b \in Calls : b < c => call[b].pc /= "idle"
    /\ call' = [call EXCEPT ![c].now = now,
                            ![c].pc = IF Debounced(now) THEN "debounced"
                                      ELSE "requestPermissions"]
    /\ UNCHANGED <<recording, isRecording, lastRecordingTime, recorder,
                   teardown, voiceLog, now, mainVars, dispatchVars,
                   speechVars, listenVars>>

\* a startFullRecording that creates its recorder before it looks at the
\* answer of requestPermissions
PermissionResultLate(c, granted) ==
    /\ call[c].pc = "requestPermissions"
    /\ IF ~granted
       THEN /\ call' = [call EXCEPT ![c].pc = "denied"]
            /\ recording' = c
            /\ recorder' = [recorder EXCEPT ![c].status = "preparing"]
       ELSE IF recording = NoRecorder
       THEN BeginPrepare(c, recorder)
       ELSE /\ call' = [call EXCEPT ![c].pc = "hardReset", ![c].obj = recording]
            /\ UNCHANGED <<recording, recorder>>
    /\ UNCHANGED <<isRecording, lastRecordingTime, teardown, voiceLog, now,
                   mainVars, dispatchVars,
                   speechVars, listenVars>>

\* requestPermissions() resolved: lines 116-124
PermissionResult(c, granted) ==
    /\ call[c].pc = "requestPermissions"
    /\ IF ~granted
       THEN /\ call' = [call EXCEPT ![c].pc = "denied"]
            /\ UNCHANGED <<recording, recorder>>
       ELSE IF recording = NoRecorder
       THEN BeginPrepare(c, recorder)
       ELSE /\ call' = [call EXCEPT ![c].pc = "hardReset", ![c].obj = recording]
            /\ UNCHANGED <<recording, recorder>>
    /\ UNCHANGED <<isRecording, lastRecordingTime, teardown, voiceLog, now,
                   mainVars, dispatchVars,
                   speechVars, listenVars>>

\* the "hard reset" of line 122 is over: lines 92-104, then 123-124
HardResetDone(c) ==
    /\ call[c].pc = "hardReset"
    /\ isRecording' = FALSE
    /\ BeginPrepare(c, AfterCleanup(recorder, call[c].obj, "hardReset"))
    /\ UNCHANGED <<lastRecordingTime, teardown, voiceLog, now, mainVars,
                   dispatchVars,
                   speechVars, listenVars>>

\* prepareToRecordAsync settled: line 125 calls startAsync on whatever
\* this.recording is by now
PrepareResult(c, ok) ==
    /\ call[c].pc = "prepareToRecordAsync"
    /\ recorder' = IF ok /\ recorder[c].status = "preparing"
                   THEN [recorder EXCEPT ![c].status = "prepared"]
                   ELSE recorder
    /\ IF ok /\ recording /= NoRecorder
       THEN /\ call' = [call EXCEPT ![c].pc = "startAsync", ![c].obj = recording]
            /\ UNCHANGED <<recording, isRecording, lastRecordingTime>>
       ELSE BeginCatch(c)
    /\ UNCHANGED <<teardown, voiceLog, now, mainVars, dispatchVars,
                   speechVars, listenVars>>

\* startAsync settled: lines 126-134 set the flags and the recording timer
StartResult(c, ok) ==
    /\ call[c].pc = "startAsync"
    /\ IF ok /\ recorder[call[c].obj].status \in {"prepared", "recording"}
       THEN /\ recorder' = [recorder EXCEPT
                              ![call[c].obj] =
                                  IF @.status = "prepared"
                                  THEN [@ EXCEPT !.status = "recording",
                                                 !.startedBy = c]
                                  ELSE @]
            /\ isRecording' = TRUE
            /\ lastRecordingTime' = call[c].now
            /\ call' = [call EXCEPT ![c].pc = "timer",
                                    ![c].obj = NoRecorder,
                                    ![c].due = now + RECORDING_DURATION,
                                    ![c].started = TRUE]
            /\ recording' = recording
       ELSE /\ recorder' = recorder
            /\ BeginCatch(c)
    /\ UNCHANGED <<teardown, voiceLog, now, mainVars, dispatchVars,
                   speechVars, listenVars>>

\* the cleanup of the catch is over
CatchCleanupDone(c) ==
    /\ call[c].pc = "catchCleanup"
    /\ recorder' = AfterCleanup(recorder, call[c].obj, "catch")
    /\ recording' = NoRecorder
    /\ isRecording' = FALSE
    /\ call' = [call EXCEPT ![c].pc = "failed", ![c].obj = NoRecorder]
    /\ UNCHANGED <<lastRecordingTime, teardown, voiceLog, now, mainVars,
                   dispatchVars,
                   speechVars, listenVars>>

\* a recording timer whose handle is kept in the ref of the response timer:
\* when it fires, the ref is cleared
RecordingTimeoutSharedRef(c) ==
    /\ call[c].pc = "timer"
    /\ now >= call[c].due
    /\ call' = IF recording = NoRecorder \/ ~isRecording
               THEN [call EXCEPT ![c].pc = "done"]
               ELSE [call EXCEPT ![c].pc = "stopAndUnloadAsync",
                                 ![c].obj = recording]
    /\ responseTimer' = NoTimer
    /\ sess' = ClearTimeout(sess, responseTimer, "cancelledByRecording")
    /\ UNCHANGED <<location, destination, emergencyContacts, effectClosure,
                   setupPc, subscribed, listening, mounted,
                   lastNotificationTime, nextSession, alertLog, ev>>
    /\ UNCHANGED <<recording, isRecording, lastRecordingTime, recorder,
                   teardown, voiceLog, now, dispatchVars, speechVars, listenVars>>

\* the setTimeout of line 131 fires: stopRecordingAndSend, lines 141-148
RecordingTimeout(c) ==
    /\ call[c].pc = "timer"
    /\ now >= call[c].due
    /\ call' = IF recording = NoRecorder \/ ~isRecording
               THEN [call EXCEPT ![c].pc = "done"]
               ELSE [call EXCEPT ![c].pc = "stopAndUnloadAsync",
                                 ![c].obj = recording]
    /\ UNCHANGED <<recording, isRecording, lastRecordingTime, recorder,
                   teardown, voiceLog, now, mainVars, dispatchVars,
                   speechVars, listenVars>>

\* stopAndUnloadAsync settled: lines 148-154, or the catch and the finally
StopResult(c, ok) ==
    /\ call[c].pc = "stopAndUnloadAsync"
    /\ IF ok /\ recording /= NoRecorder
       THEN /\ recorder' = Stopped(recorder, call[c].obj, "timer")
            /\ call' = [call EXCEPT ![c].pc = "uploadToSupabase",
                                    ![c].obj = NoRecorder]
       ELSE /\ recorder' = IF ok THEN Stopped(recorder, call[c].obj, "timer")
                           ELSE recorder
            /\ BeginFinally(c)
    /\ UNCHANGED <<recording, isRecording, lastRecordingTime, teardown,
                   voiceLog, now, mainVars, dispatchVars,
                   speechVars, listenVars>>

\* an upload whose failure is not looked at: the dispatch is made anyway
UploadResultSendingAnyway(c, ok) ==
    /\ call[c].pc = "uploadToSupabase"
    /\ voiceLog' = [voiceLog EXCEPT ![c] = IF ok THEN "sendAudioToContacts"
                                           ELSE "uploadFailed"]
    /\ call' = [call EXCEPT ![c].pc = "sendAudioToContacts"]
    /\ UNCHANGED <<recording, isRecording, lastRecordingTime, recorder,
                   teardown, now, mainVars, dispatchVars,
                   speechVars, listenVars>>

\* uploadToSupabase resolved with a public URL or with null: lines 155-161
UploadResult(c, ok) ==
    /\ call[c].pc = "uploadToSupabase"
    /\ IF ok
       THEN /\ voiceLog' = [voiceLog EXCEPT ![c] = "sendAudioToContacts"]
            /\ call' = [call EXCEPT ![c].pc = "sendAudioToContacts"]
       ELSE /\ voiceLog' = [voiceLog EXCEPT ![c] = "uploadFailed"]
            /\ BeginFinally(c)
    /\ UNCHANGED <<recording, isRecording, lastRecordingTime, recorder,
                   teardown, now, mainVars, dispatchVars,
                   speechVars, listenVars>>

\* a voice dispatch that counts as the alert of the incident: when it
\* returns, the pending response timer is cancelled
SendAudioDoneCancelling(c) ==
    /\ call[c].pc = "sendAudioToContacts"
    /\ BeginFinally(c)
    /\ responseTimer' = NoTimer
    /\ sess' = ClearTimeout(sess, responseTimer, "cancelledByVoiceAlert")
    /\ UNCHANGED <<location, destination, emergencyContacts, effectClosure,
                   setupPc, subscribed, listening, mounted,
                   lastNotificationTime, nextSession, alertLog, ev>>
    /\ UNCHANGED <<recording, isRecording, lastRecordingTime, recorder,
                   teardown, voiceLog, now, dispatchVars, speechVars, listenVars>>

\* sendAudioToContacts returned (it catches its own errors): line 168
SendAudioDone(c) ==
    /\ call[c].pc = "sendAudioToContacts"
    /\ BeginFinally(c)
    /\ UNCHANGED <<recording, isRecording, lastRecordingTime, recorder,
                   teardown, voiceLog, now, mainVars, dispatchVars,
                   speechVars, listenVars>>

\* the cleanup of the finally is over
FinalCleanupDone(c) ==
    /\ call[c].pc = "finalCleanup"
    /\ recorder' = AfterCleanup(recorder, call[c].obj, "finally")
    /\ recording' = NoRecorder
    /\ isRecording' = FALSE
    /\ call' = [call EXCEPT ![c].pc = "done", ![c].obj = NoRecorder]
    /\ UNCHANGED <<lastRecordingTime, teardown, voiceLog, now, mainVars,
                   dispatchVars,
                   speechVars, listenVars>>

\* voice mode is turned off or the screen unmounts: stopListening(), lines
\* 83-86, which returns at once when no recorder is referenced (line 89)
StopListening ==
    /\ teardown.pc = "listening"
    /\ teardown' = [pc |-> IF recording = NoRecorder THEN "stopped"
                           ELSE "cleanup",
                    obj |-> recording]
    /\ UNCHANGED <<recording, isRecording, lastRecordingTime, call, recorder,
                   voiceLog, now, mainVars, dispatchVars,
                   speechVars, listenVars>>

\* the cleanup stopListening started is over
TeardownDone ==
    /\ teardown.pc = "cleanup"
    /\ recorder' = AfterCleanup(recorder, teardown.obj, "teardown")
    /\ recording' = NoRecorder
    /\ isRecording' = FALSE
    /\ teardown' = [pc |-> "stopped", obj |-> NoRecorder]
    /\ UNCHANGED <<lastRecordingTime, call, voiceLog, now, mainVars,
                   dispatchVars,
                   speechVars, listenVars>>

\* time passes; a recording timer that is due fires first, and a pending
\* native call settles first.  The clock starts with the first detection.
VoiceTick ==
    /\ \E i \in VoiceInstants : i > now
    /\ \A c \in Calls : call[c].pc = "timer" => call[c].due > now
    /\ \A c \in Calls : call[c].pc \notin NativeAwaits
    /\ teardown.pc /= "cleanup"
    /\ call[1].pc /= "idle"
    /\ now' = NextInstant(now)
    /\ UNCHANGED <<mainVars, dispatchVars, voiceVars, speechVars, listenVars>>

VoiceNext ==
    \/ \E c \in Calls : StartFullRecording(c)
    \/ \E c \in Calls, granted \in BOOLEAN : PermissionResult(c, granted)
    \/ \E c \in Calls : HardResetDone(c)
    \/ \E c \in Calls, ok \in BOOLEAN : PrepareResult(c, ok)
    \/ \E c \in Calls, ok \in BOOLEAN : StartResult(c, ok)
    \/ \E c \in Calls : CatchCleanupDone(c)
    \/ \E c \in Calls : RecordingTimeout(c)
    \/ \E c \in Calls, ok \in BOOLEAN : StopResult(c, ok)
    \/ \E c \in Calls, ok \in BOOLEAN : UploadResult(c, ok)
    \/ \E c \in Calls : SendAudioDone(c)
    \/ \E c \in Calls : FinalCleanupDone(c)
    \/ StopListening
    \/ TeardownDone
    \/ VoiceTick

VoiceSpec == Init /\ [][VoiceNext]_vars

\* what the event loop and the calls awaited do on their own: a promise
\* settles, a timer that is due fires, time passes.  A trigger detection and
\* stopListening are up to the user.
VoiceProgress ==
    \/ \E c \in Calls, granted \in BOOLEAN : PermissionResult(c, granted)
    \/ \E c \in Calls : HardResetDone(c)
    \/ \E c \in Calls, ok \in BOOLEAN : PrepareResult(c, ok)
    \/ \E c \in Calls, ok \in BOOLEAN : StartResult(c, ok)
    \/ \E c \in Calls : CatchCleanupDone(c)
    \/ \E c \in Calls : RecordingTimeout(c)
    \/ \E c \in Calls, ok \in BOOLEAN : StopResult(c, ok)
    \/ \E c \in Calls, ok \in BOOLEAN : UploadResult(c, ok)
    \/ \E c \in Calls : SendAudioDone(c)
    \/ \E c \in Calls : FinalCleanupDone(c)
    \/ TeardownDone
    \/ VoiceTick

VoiceFairSpec == VoiceSpec /\ WF_vars(VoiceProgress)

\* ------------------------------------------- recorder of the main screen
\*
\* The voice path of src/Main.tsx (lines 406-532).  The mount effect assigns
\* onSpeechResults to Voice.onSpeechResults once (line 141), so
\* onSpeechResults, startEmergencyRecording, processEmergencyRecording and
\* the sendEmergencyAlert they reach are those of the render that mounted
\* the component: they read effectClosure.  setTimeouts of equal delay fire
\* in the order they were set.  The permission requests and setAudioModeAsync
\* (lines 424-441) settle together.

\* the state after the setup of the mount effect is over: a first fix is
\* known, the contacts are loaded, Voice is started
SpeechInit ==
    /\ DispatchIdle
    /\ VoiceIdle
    /\ SpeechIdle
    /\ ListenIdle
    /\ location \in FeedPositions
    /\ destination = NoCoord
    /\ emergencyContacts \in ContactLists
    /\ effectClosure = [location |-> NoCoord, destination |-> NoCoord,
                        contacts |-> <<>>]
    /\ setupPc = "done"
    /\ subscribed = TRUE
    /\ listening = TRUE
    /\ mounted = TRUE
    /\ responseTimer = NoTimer
    /\ lastNotificationTime = 0
    /\ now = StartTime
    /\ sess = [s \in Sessions |-> NoSession]
    /\ nextSession = 0
    /\ alertLog = <<>>
    /\ ev = [type |-> "other", session |-> 0]

\* the `location` processEmergencyRecording reads at line 510
RecorderLocationLatest == location
RecorderLocation == effectClosure.location

\* getURI() of a recorder: null until the recorder is prepared
HasURI(r) == audioRecorder[r].status \in {"prepared", "recording", "stopped"}

\* the catch of lines 482-486: isRecording is reset, the ref is left alone
StartEmergencyRecordingCatch(c) ==
    /\ isRecordingState' = FALSE
    /\ speech' = [speech EXCEPT ![c].pc = "failed"]
    /\ UNCHANGED <<audioRecorderRef, recordingTimers>>

\* lines 478-479, the end of the setTimeout callback
EndOfTimeout(c) ==
    /\ isRecordingState' = FALSE
    /\ audioRecorderRef' = NoRecorder
    /\ speech' = [speech EXCEPT ![c].pc = "done", ![c].obj = NoRecorder]

\* Voice delivers a result that contains a keyword: lines 406-418, 422-424
onSpeechResults(c) ==
    /\ mounted
    /\ speech[c].pc = "idle"
    /\ \A b \in Calls : b < c => speech[b].pc /= "idle"
    /\ speech' = [speech EXCEPT ![c].pc = "requestPermissions"]
    /\ UNCHANGED <<audioRecorderRef, isRecordingState, audioRecorder,
                   recordingTimers, speechLog>>
    /\ UNCHANGED <<mainVars, now, dispatchVars, voiceVars, listenVars>>

\* the permissions and the audio mode are settled: lines 424-444
RecordingPermissionResult(c, answer) ==
    /\ speech[c].pc = "requestPermissions"
    /\ CASE answer = "granted" ->
              /\ audioRecorderRef' = c
              /\ audioRecorder' = [audioRecorder EXCEPT ![c].status = "created"]
              /\ speech' = [speech EXCEPT ![c].pc = "prepareToRecordAsync"]
              /\ UNCHANGED <<isRecordingState, recordingTimers>>
         [] answer = "denied" ->
              /\ speech' = [speech EXCEPT ![c].pc = "denied"]
              /\ UNCHANGED <<audioRecorderRef, isRecordingState, audioRecorder,
                             recordingTimers>>
         [] answer = "throws" ->
              /\ StartEmergencyRecordingCatch(c)
              /\ UNCHANGED audioRecorder
    /\ UNCHANGED speechLog
    /\ UNCHANGED <<mainVars, now, dispatchVars, voiceVars, listenVars>>

\* prepareToRecordAsync settled: line 466
RecordingPrepareResult(c, ok) ==
    /\ speech[c].pc = "prepareToRecordAsync"
    /\ IF ok
       THEN /\ audioRecorder' = [audioRecorder EXCEPT ![c].status = "prepared"]
            /\ speech' = [speech EXCEPT ![c].pc = "startAsync"]
            /\ UNCHANGED <<audioRecorderRef, isRecordingState, recordingTimers>>
       ELSE /\ StartEmergencyRecordingCatch(c)
            /\ UNCHANGED audioRecorder
    /\ UNCHANGED speechLog
    /\ UNCHANGED <<mainVars, now, dispatchVars, voiceVars, listenVars>>

\* startAsync settled: lines 467-481 set isRecording and the 60 s timer
RecordingStartResult(c, ok) ==
    /\ speech[c].pc = "startAsync"
    /\ IF ok
       THEN /\ audioRecorder' = [audioRecorder EXCEPT ![c].status = "recording"]
            /\ isRecordingState' = TRUE
            /\ recordingTimers' = Append(recordingTimers, c)
            /\ speech' = [speech EXCEPT ![c].pc = "timer"]
            /\ UNCHANGED audioRecorderRef
       ELSE /\ StartEmergencyRecordingCatch(c)
            /\ UNCHANGED audioRecorder
    /\ UNCHANGED speechLog
    /\ UNCHANGED <<mainVars, now, dispatchVars, voiceVars, listenVars>>

\* the setTimeout of line 471 fires: lines 472-473
EmergencyRecordingTimeout(c) ==
    /\ recordingTimers /= <<>>
    /\ Head(recordingTimers) = c
    /\ recordingTimers' = Tail(recordingTimers)
    /\ speech' = IF audioRecorderRef = NoRecorder
                 THEN [speech EXCEPT ![c].pc = "done"]
                 ELSE [speech EXCEPT ![c].pc = "stopAndUnloadAsync",
                                     ![c].obj = audioRecorderRef]
    /\ UNCHANGED <<audioRecorderRef, isRecordingState, audioRecorder,
                   speechLog>>
    /\ UNCHANGED <<mainVars, now, dispatchVars, voiceVars, listenVars>>

\* stopAndUnloadAsync settled: lines 473-476.  A rejection, or a ref that
\* was set to null in the meantime (line 474), ends the callback with an
\* unhandled rejection before lines 478-479.
RecordingStopResult(c, ok) ==
    /\ speech[c].pc = "stopAndUnloadAsync"
    /\ audioRecorder' = IF ok THEN Unloaded(audioRecorder, speech[c].obj, "timer")
                        ELSE audioRecorder
    /\ IF ~ok \/ audioRecorderRef = NoRecorder
       THEN /\ speech' = [speech EXCEPT ![c].pc = "rejected",
                                        ![c].obj = NoRecorder]
            /\ UNCHANGED <<audioRecorderRef, isRecordingState>>
       ELSE IF HasURI(audioRecorderRef)
       THEN /\ speech' = [speech EXCEPT ![c].pc = "upload",
                                        ![c].obj = NoRecorder]
            /\ UNCHANGED <<audioRecorderRef, isRecordingState>>
       ELSE EndOfTimeout(c)
    /\ UNCHANGED <<recordingTimers, speechLog>>
    /\ UNCHANGED <<mainVars, now, dispatchVars, voiceVars, listenVars>>

\* processEmergencyRecording up to its last await: the file is read and
\* uploaded (lines 492-502), then the alert is sent with the public URL if
\* `location` is set (lines 510-511), or a notification says why not
ProcessEmergencyRecording(c, uploaded) ==
    /\ speech[c].pc = "upload"
    /\ speech' = [speech EXCEPT ![c].pc = "processed"]
    /\ IF ~uploaded
       THEN /\ speechLog' = [speechLog EXCEPT ![c] = "uploadFailed"]
            /\ alertLog' = alertLog
       ELSE IF HasCoordinates(RecorderLocation)
       THEN /\ speechLog' = [speechLog EXCEPT ![c] = "sendEmergencyAlert"]
            /\ \E a \in Deliveries(sendEmergencyAlert(0, RecorderLocation,
                                                      ListenerContacts,
                                                      "recording")) :
                  alertLog' = Append(alertLog, a)
       ELSE /\ speechLog' = [speechLog EXCEPT ![c] = "locationUnavailable"]
            /\ alertLog' = alertLog
    /\ UNCHANGED <<audioRecorderRef, isRecordingState, audioRecorder,
                   recordingTimers>>
    /\ UNCHANGED <<location, destination, emergencyContacts, effectClosure,
                   setupPc, subscribed, listening, mounted, responseTimer,
                   lastNotificationTime, sess, nextSession, ev>>
    /\ UNCHANGED <<now, dispatchVars, voiceVars, listenVars>>

\* processEmergencyRecording returned: lines 478-479
RecordingProcessed(c) ==
    /\ speech[c].pc = "processed"
    /\ EndOfTimeout(c)
    /\ UNCHANGED <<audioRecorder, recordingTimers, speechLog>>
    /\ UNCHANGED <<mainVars, now, dispatchVars, voiceVars, listenVars>>

PermissionAnswers == {"granted", "denied", "throws"}

SpeechNext ==
    \/ \E c \in Calls : onSpeechResults(c)
    \/ \E c \in Calls, a \in PermissionAnswers : RecordingPermissionResult(c, a)
    \/ \E c \in Calls, ok \in BOOLEAN : RecordingPrepareResult(c, ok)
    \/ \E c \in Calls, ok \in BOOLEAN : RecordingStartResult(c, ok)
    \/ \E c \in Calls : EmergencyRecordingTimeout(c)
    \/ \E c \in Calls, ok \in BOOLEAN : RecordingStopResult(c, ok)
    \/ \E c \in Calls, up \in BOOLEAN : ProcessEmergencyRecording(c, up)
    \/ \E c \in Calls : RecordingProcessed(c)
    \/ Unmount

SpeechSpec == SpeechInit /\ [][SpeechNext]_vars

\* ------------------------------------------------------------ one incident
\*
\* The escalation controller and the voice service side by side, as on the
\* screen that owns both (src/unnamed/part_000 lines 163-173, 475-484):
\* the setup is over, a destination far from the position is set, the
\* contacts are loaded; the user deviates, answers or does not answer the
\* prompt, and one trigger phrase is detected.  The two share the clock.

IncidentInit ==
    /\ DispatchIdle
    /\ VoiceIdle
    /\ SpeechIdle
    /\ ListenIdle
    /\ location \in FeedPositions
    /\ destination \in DestPositions
    /\ destination - location > ROUTE_DEVIATION_THRESHOLD
    /\ emergencyContacts \in ContactLists
    /\ emergencyContacts /= <<>>
    /\ effectClosure = [location |-> NoCoord, destination |-> NoCoord,
                        contacts |-> <<>>]
    /\ setupPc = "done"
    /\ subscribed = TRUE
    /\ listening = TRUE
    /\ mounted = TRUE
    /\ responseTimer = NoTimer
    /\ lastNotificationTime = 0
    /\ now = StartTime
    /\ sess = [s \in Sessions |-> NoSession]
    /\ nextSession = 0
    /\ alertLog = <<>>
    /\ ev = [type |-> "other", session |-> 0]

\* time passes for both; a recording timer that is due fires first, and a
\* pending native call settles first, as a response timer that is due does
IncidentTick ==
    /\ \A c \in Calls : call[c].pc = "timer" => call[c].due > now
    /\ \A c \in Calls : call[c].pc \notin NativeAwaits
    /\ Tick

IncidentNext ==
    \/ simulateDeviation
    \/ \E s \in Sessions : PromptShown(s)
    \/ \E s \in Sessions : ShowDeviationNotificationResume(s)
    \/ \E s \in Sessions : ShowDeviationNotificationCatch(s)
    \/ \E s \in Sessions : ResponseTimeout(s)
    \/ \E a \in ActionIds, s \in Sessions : NotificationResponse(a, s)
    \/ StartFullRecording(1)
    \/ \E c \in Calls, granted \in BOOLEAN : PermissionResult(c, granted)
    \/ \E c \in Calls, ok \in BOOLEAN : PrepareResult(c, ok)
    \/ \E c \in Calls, ok \in BOOLEAN : StartResult(c, ok)
    \/ \E c \in Calls : CatchCleanupDone(c)
    \/ \E c \in Calls : RecordingTimeout(c)
    \/ \E c \in Calls, ok \in BOOLEAN : StopResult(c, ok)
    \/ \E c \in Calls, ok \in BOOLEAN : UploadResult(c, ok)
    \/ \E c \in Calls : SendAudioDone(c)
    \/ \E c \in Calls : FinalCleanupDone(c)
    \/ IncidentTick

IncidentSpec == IncidentInit /\ [][IncidentNext]_vars

\* ------------------------------------------------- sampling VoiceService
\*
\* The VoiceService that samples snippets (VoiceService.ts lines 290-551):
\* startListening sets an interval whose callback records a snippet,
\* transcribes it and calls startRecording on a trigger word.  prepare and
\* start of a recorder settle together; the transcription (a mock, lines
\* 418-426) and the checks around it run without another call in between.
\* An interval that was not cleared may fire at any time; setTimeouts of
\* equal delay fire in the order they were set.

\* the catch of startRecording (lines 450-456), entered by callback k with
\* the service in state S: the recorder referenced is unloaded and the
\* reference dropped
StartRecordingCatch(S, k) ==
    [S EXCEPT !.recorder = Unloaded(S.recorder, S.recording, "catch"),
              !.recording = NoRecorder,
              !.cb[k] = [pc |-> "done", obj |-> NoRecorder]]

\* lines 443-444: this.recording = new Audio.Recording(), then the awaits
\* of prepareToRecordAsync and startAsync
BeginRecording(S, k) ==
    [S EXCEPT !.recording = k,
              !.recorder[k].status = "created",
              !.cb[k] = [pc |-> "startAsync", obj |-> NoRecorder]]

\* startListening up to its await: lines 330-336
startListening ==
    /\ Len(sampler.starts) < MaxCalls
    /\ sampler' = [sampler EXCEPT
                     !.starts = Append(@, IF sampler.isListening
                                          THEN "already"
                                          ELSE "requestPermissions")]
    /\ UNCHANGED <<mainVars, now, dispatchVars, voiceVars, speechVars>>

\* requestPermissions() resolved: lines 337-344 and listeningLoop's
\* setInterval (line 365), whose handle replaces the one stored
ListeningPermissionResult(j, granted) ==
    /\ j \in DOMAIN sampler.starts
    /\ sampler.starts[j] = "requestPermissions"
    /\ sampler' = IF granted
                  THEN [sampler EXCEPT !.starts[j] = "listening",
                                       !.isListening = TRUE,
                                       !.listeningInterval = j,
                                       !.intervals = @ \cup {j}]
                  ELSE [sampler EXCEPT !.starts[j] = "denied"]
    /\ UNCHANGED <<mainVars, now, dispatchVars, voiceVars, speechVars>>

\* stopListening (lines 347-362); the screen offers it at any time
stopSampling ==
    /\ sampler' = [sampler EXCEPT
                     !.isListening = FALSE,
                     !.intervals = @ \ {sampler.listeningInterval},
                     !.listeningInterval = 0,
                     !.snippetRecording = NoRecorder,
                     !.recorder = Unloaded(@, sampler.recording, "teardown"),
                     !.recording = NoRecorder]
    /\ UNCHANGED <<mainVars, now, dispatchVars, voiceVars, speechVars>>

\* an interval fires: lines 366-369 and recordSnippet up to its first await
IntervalCallback(i) ==
    /\ i \in sampler.intervals
    /\ Len(sampler.cb) < MaxCalls
    /\ LET k == Len(sampler.cb) + 1
           S == [sampler EXCEPT !.recorder = Append(@, NoAudioRecorder),
                                !.log = Append(@, "none")]
       IN  sampler' =
             IF ~sampler.isListening \/ sampler.isRecordingSnippet
             THEN [S EXCEPT !.cb = Append(@, [NoCallback EXCEPT
                                                !.pc = "skipped"])]
             ELSE [S EXCEPT !.cb = Append(@, [NoCallback EXCEPT
                                                !.pc = "snippetStart"]),
                            !.isRecordingSnippet = TRUE,
                            !.snippetRecording = k]
    /\ UNCHANGED <<mainVars, now, dispatchVars, voiceVars, speechVars>>

\* the snippet recorder is started (lines 397-398) and SNIPPET_DURATION is
\* over (line 400); a reference set to null meanwhile makes line 398 or
\* line 402 throw into the catch of lines 408-415, and line 370-372 return
SnippetRecorded(k, ok) ==
    /\ k \in DOMAIN sampler.cb
    /\ sampler.cb[k].pc = "snippetStart"
    /\ sampler' = IF ok /\ sampler.snippetRecording /= NoRecorder
                  THEN [sampler EXCEPT !.cb[k].pc = "snippetStop"]
                  ELSE [sampler EXCEPT !.cb[k].pc = "done",
                                       !.isRecordingSnippet = FALSE,
                                       !.snippetRecording = NoRecorder]
    /\ UNCHANGED <<mainVars, now, dispatchVars, voiceVars, speechVars>>

\* the snippet is stopped (lines 402-407, 370), transcribed (lines 375-378)
\* and, if it holds a trigger word, startRecording is entered: lines 432-444
SnippetTranscribed(k, ok, trigger) ==
    /\ k \in DOMAIN sampler.cb
    /\ sampler.cb[k].pc = "snippetStop"
    /\ LET S == [sampler EXCEPT !.isRecordingSnippet = FALSE,
                                !.snippetRecording = NoRecorder]
       IN  sampler' =
             IF ok /\ sampler.snippetRecording /= NoRecorder /\ trigger
             THEN IF sampler.recording /= NoRecorder
                  THEN [S EXCEPT !.cb[k] = [pc |-> "stopPrevious",
                                            obj |-> sampler.recording]]
                  ELSE BeginRecording(S, k)
             ELSE [S EXCEPT !.cb[k].pc = "done"]
    /\ UNCHANGED <<mainVars, now, dispatchVars, voiceVars, speechVars>>

\* the recording in progress is stopped for the new one: lines 439-444
PreviousStopped(k, ok) ==
    /\ k \in DOMAIN sampler.cb
    /\ sampler.cb[k].pc = "stopPrevious"
    /\ sampler' =
         IF ok
         THEN BeginRecording(
                [sampler EXCEPT !.recorder = Unloaded(@, sampler.cb[k].obj,
                                                      "newTrigger")], k)
         ELSE StartRecordingCatch(sampler, k)
    /\ UNCHANGED <<mainVars, now, dispatchVars, voiceVars, speechVars>>

\* prepareToRecordAsync and startAsync settled: lines 444-449
FullRecordingStarted(k, ok) ==
    /\ k \in DOMAIN sampler.cb
    /\ sampler.cb[k].pc = "startAsync"
    /\ sampler' =
         IF ok /\ sampler.recording /= NoRecorder
         THEN [sampler EXCEPT
                 !.recorder[sampler.recording].status = "recording",
                 !.timers = Append(@, k),
                 !.cb[k].pc = "timer"]
         ELSE StartRecordingCatch(sampler, k)
    /\ UNCHANGED <<mainVars, now, dispatchVars, voiceVars, speechVars>>

\* the setTimeout of line 447 fires: stopRecordingAndSend, lines 459-466
FullRecordingTimeout(k) ==
    /\ sampler.timers /= <<>>
    /\ Head(sampler.timers) = k
    /\ sampler' =
         IF sampler.recording = NoRecorder
         THEN [sampler EXCEPT !.timers = Tail(@), !.cb[k].pc = "done"]
         ELSE [sampler EXCEPT !.timers = Tail(@),
                              !.cb[k] = [pc |-> "stopAndUnloadAsync",
                                         obj |-> sampler.recording]]
    /\ UNCHANGED <<mainVars, now, dispatchVars, voiceVars, speechVars>>

\* stopAndUnloadAsync settled: lines 466-471, or the catch and the finally
FullRecordingStopped(k, ok) ==
    /\ k \in DOMAIN sampler.cb
    /\ sampler.cb[k].pc = "stopAndUnloadAsync"
    /\ LET S == [sampler EXCEPT
                   !.recorder = IF ok THEN Unloaded(@, sampler.cb[k].obj,
                                                    "timer")
                                ELSE @]
       IN  sampler' =
             IF ok /\ sampler.recording /= NoRecorder
             THEN [S EXCEPT !.cb[k] = [pc |-> "uploadToSupabase",
                                       obj |-> NoRecorder]]
             ELSE [S EXCEPT !.cb[k] = [pc |-> "done", obj |-> NoRecorder],
                            !.recording = NoRecorder]
    /\ UNCHANGED <<mainVars, now, dispatchVars, voiceVars, speechVars>>

\* the upload resolved and, with a public URL, sendAudioToContacts was
\* called and returned: lines 471-484
FullRecordingUploaded(k, ok) ==
    /\ k \in DOMAIN sampler.cb
    /\ sampler.cb[k].pc = "uploadToSupabase"
    /\ sampler' = [sampler EXCEPT
                     !.log[k] = IF ok THEN "sendAudioToContacts"
                                ELSE "uploadFailed",
                     !.recording = NoRecorder,
                     !.cb[k].pc = "done"]
    /\ UNCHANGED <<mainVars, now, dispatchVars, voiceVars, speechVars>>

ListenNext ==
    \/ startListening
    \/ \E j \in Calls, granted \in BOOLEAN : ListeningPermissionResult(j, granted)
    \/ stopSampling
    \/ \E i \in Calls : IntervalCallback(i)
    \/ \E k \in Calls, ok \in BOOLEAN : SnippetRecorded(k, ok)
    \/ \E k \in Calls, ok \in BOOLEAN, trigger \in BOOLEAN :
          SnippetTranscribed(k, ok, trigger)
    \/ \E k \in Calls, ok \in BOOLEAN : PreviousStopped(k, ok)
    \/ \E k \in Calls, ok \in BOOLEAN : FullRecordingStarted(k, ok)
    \/ \E k \in Calls : FullRecordingTimeout(k)
    \/ \E k \in Calls, ok \in BOOLEAN : FullRecordingStopped(k, ok)
    \/ \E k \in Calls, ok \in BOOLEAN : FullRecordingUploaded(k, ok)

ListenSpec == Init /\ [][ListenNext]_vars

\* ------------------------------------------------------------------ claims

SampleStep == ev'.type \in {"simulate", "feed"}

EscalationUnchanged ==
    /\ sess' = sess
    /\ nextSession' = nextSession
    /\ responseTimer' = responseTimer
    /\ alertLog' = alertLog

\* C1: a session whose "confirm safe" (IM_SAFE) response was handled before
\* its response timer fired never has sendEmergencyAlert invoked for it.
C1_SafeNeverAlerts ==
    \A s \in Sessions : sess[s].safe => AlertCount(s) = 0

\* C2: a session that was PendingResponse and saw no user response handled
\* during its response window has sendEmergencyAlert invoked once the window
\* is over (teardown of the component aside).
C2_TimeoutAlerts ==
    \A s \in Sessions :
        ( /\ sess[s].phase \in {"fired", "cancelledByNewEvent", "cancelledByResponse"}
          /\ ~sess[s].responded
          /\ now >= sess[s].deadline )
        => AlertCount(s) >= 1

\* C3: handling SEND_ALERT for a session in PendingResponse cancels the timer
\* and invokes sendEmergencyAlert with the traveler's current location.
C3_SendAlertDispatches ==
    [][\A s \in Sessions :
         (ev' = [type |-> "SEND_ALERT", session |-> s] /\ Armed(s))
         => /\ sess'[s].phase /= "pending"
            /\ Len(alertLog') = Len(alertLog) + 1
            /\ alertLog'[Len(alertLog')].session = s
            /\ alertLog'[Len(alertLog')].loc = location]_vars

\* C4: sendEmergencyAlert is invoked at most once per escalation session.
C4_AtMostOneDispatch ==
    \A s \in Sessions : AlertCount(s) <= 1

C4_Witness ==
    \E s \in Sessions :
        /\ sess[s].phase = "fired"
        /\ ev = [type |-> "SEND_ALERT", session |-> s]
        /\ AlertCount(s) = 1

\* C5: at most one response-window timer is armed at any time.
C5_SingleFlight ==
    Cardinality({s \in Sessions : Armed(s)}) <= 1

\* C6: a position sample handled while a session is PendingResponse leaves
\* every session (timer, deadline, captured coordinate) as it was and opens
\* no further prompt.
C6_EventIgnoredWhilePending ==
    [][(SampleStep /\ \E s \in Sessions : Armed(s))
       => (sess' = sess /\ nextSession' = nextSession)]_vars

\* C7: with a destination set, a feed sample farther than the threshold from
\* it, the cooldown elapsed, opens an escalation session.
C7_FeedSampleEvaluated ==
    [][( /\ ev'.type = "feed"
         /\ destination /= NoCoord
         /\ Distance(location', destination) > ROUTE_DEVIATION_THRESHOLD
         /\ now - lastNotificationTime >= NOTIFICATION_COOLDOWN )
       => nextSession' = nextSession + 1]_vars

\* C8: a sample whose distance to the destination is at most the threshold
\* raises no deviation event and leaves lastNotificationTime unchanged.
C8_WithinThresholdNoEvent ==
    [][( /\ SampleStep
         /\ destination /= NoCoord
         /\ Distance(location', destination) <= ROUTE_DEVIATION_THRESHOLD )
       => (EscalationUnchanged /\ lastNotificationTime' = lastNotificationTime)]_vars

C8_Witness ==
    /\ ev.type = "simulate"
    /\ destination /= NoCoord
    /\ Distance(location, destination) = ROUTE_DEVIATION_THRESHOLD
    /\ now - lastNotificationTime >= NOTIFICATION_COOLDOWN
    /\ nextSession = 0

\* C9: a sample evaluated by checkRouteDeviation with distance above the
\* threshold and the cooldown elapsed raises exactly one deviation event; a
\* sample evaluated less than NOTIFICATION_COOLDOWN after a raised event
\* raises none.
C9_OneEventPerCooldown ==
    [][( /\ ev'.type = "simulate"
         /\ destination /= NoCoord
         /\ Distance(location', destination) > ROUTE_DEVIATION_THRESHOLD )
       => /\ (now - lastNotificationTime >= NOTIFICATION_COOLDOWN)
               => /\ nextSession' = nextSession + 1
                  /\ sess'[nextSession'].phase = "scheduling"
                  /\ sess'[nextSession'].loc = location'
                  /\ \A s \in Sessions \ {nextSession'} : sess'[s].loc = sess[s].loc
          /\ (\E s \in Sessions :
                 /\ sess[s].phase /= "idle"
                 /\ now - sess[s].createdAt < NOTIFICATION_COOLDOWN)
               => nextSession' = nextSession]_vars

C9_Witness ==
    /\ ev.type = "simulate"
    /\ destination /= NoCoord
    /\ Distance(location, destination) > ROUTE_DEVIATION_THRESHOLD
    /\ nextSession = 1
    /\ sess[1].createdAt < now
    /\ now - sess[1].createdAt < NOTIFICATION_COOLDOWN

\* C10: with no destination set, a sample raises no deviation event and
\* leaves lastNotificationTime, the response timer and the sessions unchanged.
C10_NoDestinationNoOp ==
    [][(SampleStep /\ destination = NoCoord)
       => (EscalationUnchanged /\ lastNotificationTime' = lastNotificationTime)]_vars

C10_Witness ==
    /\ ev.type = "simulate"
    /\ destination = NoCoord
    /\ location = MaxPos
    /\ now - lastNotificationTime >= NOTIFICATION_COOLDOWN

\* C11: a sample that raises a deviation event sets lastNotificationTime to
\* the evaluation time in the same step, while the new session is still
\* waiting for its prompt; no later step (a response, the timer, a dispatch or
\* its failure) moves lastNotificationTime back.
C11_CooldownStampedAtRaise ==
    [][/\ (SampleStep /\ nextSession' /= nextSession)
            => /\ lastNotificationTime' = now
               /\ sess'[nextSession'].phase = "scheduling"
               /\ sess'[nextSession'].createdAt = lastNotificationTime'
       /\ lastNotificationTime' >= lastNotificationTime]_vars

C11_Witness ==
    \E s \in Sessions :
        /\ sess[s].phase = "fired"
        /\ AlertCount(s) = 1
        /\ now > sess[s].createdAt
        /\ lastNotificationTime = sess[s].createdAt

\* C12: lastNotificationTime is written only by a step that evaluates a
\* position sample (checkRouteDeviation); response handling, the timer
\* callback and dispatch leave it alone.
C12_OnlyDetectorWritesCooldown ==
    [][lastNotificationTime' /= lastNotificationTime => SampleStep]_vars

\* C13: the alert the response timer dispatches carries the coordinate the
\* session captured when its event was raised, whatever samples arrived in
\* between; the captured coordinate of a session never changes.
C13_TimerUsesCapturedLocation ==
    [][\A s \in Sessions :
         /\ (sess[s].phase /= "idle") => sess'[s].loc = sess[s].loc
         /\ (ev' = [type |-> "timeout", session |-> s] /\ alertLog' /= alertLog)
              => /\ Len(alertLog') = Len(alertLog) + 1
                 /\ alertLog'[Len(alertLog')].session = s
                 /\ alertLog'[Len(alertLog')].loc = sess[s].loc]_vars

C13_Witness ==
    \E i \in DOMAIN alertLog :
        /\ alertLog[i].cause = "timer"
        /\ alertLog[i].loc = sess[alertLog[i].session].loc
        /\ alertLog[i].loc /= location
        /\ ev.type = "timeout"

\* C14: a dispatcher called with an empty contact list never asks the SMS
\* module anything, never calls sendSMSAsync, and returns from its entry
\* with the no-contacts report as the only thing it surfaces.
C14_NoContactsNoSend ==
    (dispatchPc /= "none" /\ Len(dispatchCall.contacts) = 0)
    => /\ smsCalls = <<>>
       /\ channel = [available |-> "unasked", result |-> "uncalled"]
       /\ dispatchPc \in {"called", "returned"}
       /\ dispatchPc = "returned"
            => reports \in
                 {<<"Alert Failed: No emergency contacts available to send alerts to">>,
                  <<"No emergency contacts">>}

C14_Witness ==
    /\ dispatchPc = "returned"
    /\ dispatchCall.who = "sendAudioToContacts"
    /\ dispatchCall.contacts = <<>>
    /\ dispatchCall.location /= NoCoord
    /\ reports = <<"No emergency contacts">>

\* C15: a dispatcher call makes at most one sendSMSAsync call; with contacts
\* and an available channel it makes exactly one, addressed to the numbers
\* of all the contacts in order, and whatever sendSMSAsync answers (sent,
\* cancelled, unknown, an error) it makes no further one.
C15_OneBatchedSend ==
    /\ Len(smsCalls) <= 1
    /\ (Len(dispatchCall.contacts) > 0 /\ channel.available = "available")
       => /\ Len(smsCalls) = 1
          /\ DOMAIN smsCalls[1].numbers = DOMAIN dispatchCall.contacts
          /\ \A i \in DOMAIN dispatchCall.contacts :
                smsCalls[1].numbers[i] \in
                    {dispatchCall.contacts[i],
                     <<"+", "91">> \o dispatchCall.contacts[i]}

C15_Witness ==
    /\ dispatchPc = "returned"
    /\ channel.result = "unknown"
    /\ Len(dispatchCall.contacts) = 2
    /\ Len(smsCalls) = 1
    /\ Len(smsCalls[1].numbers) = 2

\* C16: when isAvailableAsync answered false the call made no sendSMSAsync
\* call, and what it surfaced differs from what it surfaces when a send
\* attempt raises an error.
C16_UnavailableDistinctFromFailed ==
    (dispatchPc = "returned" /\ channel.available = "unavailable")
    => /\ smsCalls = <<>>
       /\ Len(reports) = 1
       /\ reports[1] /= SendReport(dispatchCall.who, "throws")

\* C18: every message passed to sendSMSAsync contains 'EMERGENCY', the
\* display name, the destination address or 'unknown location' when the
\* address is empty, the map link with the latitude and longitude of the
\* coordinate the call was given, and ends with the audio URL exactly when
\* one was supplied.
C18_MessageStructure ==
    \A k \in DOMAIN smsCalls :
        LET m == smsCalls[k].message
            c == dispatchCall
        IN  /\ "EMERGENCY" \in Range(m)
            /\ DisplayName \in Range(m)
            /\ (IF c.address /= "" THEN c.address ELSE "unknown location")
                 \in Range(m)
            /\ \E j \in 1..(Len(m) - 3) :
                  /\ m[j] = "https://www.openstreetmap.org/?mlat="
                  /\ m[j + 1] = ToString(c.location)
                  /\ m[j + 2] = "&mlon="
                  /\ m[j + 3] = ToString(0)
            /\ (c.audioUrl /= "") <=> (m[Len(m)] = c.audioUrl)

\* C17: a dispatch that fails in the timer callback leaves its session
\* closed with that one alert and nothing armed for it; the failed alert is
\* never dispatched again; and the next sample that deviates with the
\* cooldown elapsed opens a new session as usual.
C17_FailedDispatchDoesNotBlock ==
    [][/\ \A s \in Sessions :
            (\E i \in DOMAIN alertLog' :
                 alertLog'[i].session = s /\ alertLog'[i].outcome = "Failed")
            => /\ sess'[s].phase \in {"fired", "failed"}
               /\ Cardinality({i \in DOMAIN alertLog' : alertLog'[i].session = s}) = 1
       /\ ( /\ ev'.type = "simulate"
            /\ \E i \in DOMAIN alertLog : alertLog[i].outcome = "Failed"
            /\ destination /= NoCoord
            /\ now - lastNotificationTime >= NOTIFICATION_COOLDOWN
            /\ Distance(location', destination) > ROUTE_DEVIATION_THRESHOLD )
          => /\ nextSession' = nextSession + 1
             /\ sess'[nextSession'].phase = "scheduling"]_vars

C17_Witness ==
    /\ ev.type = "simulate"
    /\ nextSession = 2
    /\ sess[1].phase = "fired"
    /\ sess[2].phase = "scheduling"
    /\ sess[2].createdAt = now
    /\ \E i \in DOMAIN alertLog :
          /\ alertLog[i].session = 1
          /\ alertLog[i].cause = "timer"
          /\ alertLog[i].outcome = "Failed"

\* C19: of two startFullRecording calls made less than DEBOUNCE_DELAY apart
\* at most one starts a recording cycle (reaches line 128 and sets the
\* recording timer), also when the second is made while the first is
\* awaiting the permission or the recorder.
C19_OneCyclePerDebounceWindow ==
    \A c1, c2 \in Calls :
        ( /\ c1 < c2
          /\ call[c2].pc /= "idle"
          /\ call[c2].now - call[c1].now < DEBOUNCE_DELAY )
        => ~(call[c1].started /\ call[c2].started)

\* C20: a recording that was started is stopped only by stopListening or,
\* after its full RECORDING_DURATION, by the recording timer; never by what
\* a later trigger detection makes startFullRecording do.
C20_RecordingRunsToCompletion ==
    \A r \in Calls :
        recorder[r].status = "stopped"
        => \/ recorder[r].stoppedBy = "teardown"
           \/ /\ recorder[r].stoppedBy \in {"timer", "finally"}
              /\ recorder[r].full

\* C21: the voice pipeline holds at most one live recorder: while a
\* recorder that was created is not released, no other Audio.Recording is
\* created and no second recording timer is pending.
C21_AtMostOneLiveRecorder ==
    /\ Cardinality({r \in Calls :
           audioRecorder[r].status \in {"created", "prepared", "recording"}}) <= 1
    /\ Len(recordingTimers) <= 1

\* C22: a recording whose upload succeeded is followed by a dispatch that
\* carries the evidence URL, whether or not a location is known: no call
\* ends its upload with anything but sendEmergencyAlert or a failed upload.
C22_UploadedRecordingIsDispatched ==
    \A c \in Calls :
        speechLog[c] \in {"none", "uploadFailed", "sendEmergencyAlert"}

\* C23: when the upload of a completed recording fails, the call makes no
\* dispatch (it goes from the upload to the cleanup of the finally); when
\* it returns, the pipeline is idle (recording null, isRecording false);
\* and a trigger detected once DEBOUNCE_DELAY has passed since that
\* recording was started is accepted by the guard of startFullRecording.
C23_UploadFailureEndsCycle ==
    [][\A c \in Calls :
         /\ voiceLog'[c] = "uploadFailed"
            => /\ call'[c].pc \in {"finalCleanup", "done"}
               /\ voiceLog[c] \in {"none", "uploadFailed"}
         /\ ( /\ voiceLog[c] = "uploadFailed"
              /\ call[c].pc /= "done"
              /\ call'[c].pc = "done" )
            => (recording' = 0 /\ isRecording' = FALSE)
         /\ ( /\ voiceLog[c] = "uploadFailed"
              /\ call[c].pc = "done"
              /\ lastRecordingTime = call[c].now
              /\ isRecording = FALSE
              /\ now - call[c].now >= 16000 )
            => \A d \in Calls :
                   (call[d].pc = "idle" /\ call'[d].pc /= "idle")
                   => call'[d].pc = "requestPermissions"
      ]_vars

\* a recording whose upload failed, and a later trigger that started the
\* next recording
C23_Witness ==
    \E c, d \in Calls :
        /\ voiceLog[c] = "uploadFailed"
        /\ call[c].pc = "done"
        /\ c < d
        /\ call[d].started
        /\ call[d].now - call[c].now >= DEBOUNCE_DELAY
        /\ recorder[d].status = "recording"

\* C24: when preparing, starting or stopping a recording raises an error,
\* the call ends with the recorder handle released: the ref is null and
\* isRecording is false when the call has handled the error.
C24_RecorderErrorReleasesHandle ==
    [][\A c \in Calls :
         ( /\ speech[c].pc \in {"prepareToRecordAsync", "startAsync",
                                "stopAndUnloadAsync"}
           /\ speech'[c].pc \in {"failed", "rejected"} )
         => (audioRecorderRef' = 0 /\ isRecordingState' = FALSE)
      ]_vars

\* C25: every recording cycle that starts (its recording timer is set, to
\* fire within the time the clock covers) is eventually followed by an idle
\* pipeline: recording null and isRecording false.
C25_StartedCycleReturnsToIdle ==
    \A c \in Calls :
        ( /\ call[c].pc = "timer"
          /\ \E i \in VoiceInstants : i >= call[c].due )
        ~> (recording = 0 /\ isRecording = FALSE)

\* C26: once the main component is torn down, no response-window timer is
\* armed and no alert is dispatched any more, also when the teardown came
\* while showDeviationNotification was awaiting the prompt.
C26_NothingArmedAfterTeardown ==
    [][mounted' = FALSE
       => /\ \A s \in Sessions : sess'[s].phase /= "pending"
          /\ mounted = FALSE => alertLog' = alertLog
      ]_vars

\* C27: when stopListening has finished, the recorder in progress is
\* released and the recording timer is cancelled: no recorder is recording
\* and no call still has its timer pending.
C27_TeardownCancelsRecording ==
    teardown.pc = "stopped"
    => \A c \in Calls :
           /\ call[c].pc /= "timer"
           /\ recorder[c].status /= "recording"

\* C28: the response-window timer and the recording timer share no state:
\* a step that changes the response timer, the cooldown timestamp or an
\* escalation session (a deviation event, a user response, a timer expiry)
\* leaves the recorder, isRecording and the recording calls and timers as
\* they are, and a step of the voice pipeline (a trigger detection, a
\* recording's completion) leaves the response timer, the cooldown
\* timestamp and the sessions as they are.
C28_TimersShareNoState ==
    [][ /\ <<responseTimer, lastNotificationTime, sess>>'
             /= <<responseTimer, lastNotificationTime, sess>>
           => UNCHANGED <<recording, isRecording, lastRecordingTime, call,
                          recorder>>
        /\ <<recording, isRecording, lastRecordingTime, call, recorder>>'
             /= <<recording, isRecording, lastRecordingTime, call, recorder>>
           => UNCHANGED <<responseTimer, lastNotificationTime, sess>>
      ]_vars

\* a deviation was raised and the user answered its prompt while a
\* recording started before it was running, its timer still pending
C28_Witness ==
    \E s \in Sessions, c \in Calls :
        /\ call[c].pc = "timer"
        /\ isRecording
        /\ recorder[c].status = "recording"
        /\ sess[s].createdAt > call[c].now
        /\ sess[s].phase = "cancelledByResponse"
        /\ lastNotificationTime = sess[s].createdAt

\* C29: a handled failure does not stop the intake of triggers: when every
\* startFullRecording call has returned, one of them through its catch, and
\* the service has not been stopped, the guard of the next trigger is not
\* held shut by isRecording.
C29_FailureKeepsIntakeOpen ==
    ( /\ teardown.pc = "listening"
      /\ \A c \in Calls : call[c].pc \in {"done", "failed", "denied", "debounced"}
      /\ \E c \in Calls : call[c].pc = "failed" )
    => isRecording = FALSE

\* C30: the two paths are not deduplicated against each other: a dispatch
\* of the voice path (sendAudioToContacts called, or returning) leaves an
\* armed response timer armed and the alert log as it is, and a dispatch of
\* the escalation path leaves the voice calls, their timers and their
\* dispatches as they are; so both can alert in one incident (witness).
C30_DispatchesDoNotSuppress ==
    [][ /\ \A c \in Calls :
             ( /\ call'[c] /= call[c]
               /\ \/ call[c].pc = "sendAudioToContacts"
                  \/ call'[c].pc = "sendAudioToContacts" )
             => /\ \A s \in Sessions :
                      sess[s].phase = "pending" => sess'[s].phase = "pending"
                /\ responseTimer' = responseTimer
                /\ alertLog' = alertLog
        /\ Len(alertLog') > Len(alertLog)
           => UNCHANGED <<call, voiceLog, recording, isRecording>>
      ]_vars

\* one incident in which the response timer expired and sendEmergencyAlert
\* reached the contacts, and a trigger detected after the deviation was
\* raised led to a recording that sendAudioToContacts dispatched too
C30_Witness ==
    \E s \in Sessions, c \in Calls, i \in DOMAIN alertLog :
        /\ sess[s].phase = "fired"
        /\ alertLog[i].session = s
        /\ alertLog[i].cause = "timer"
        /\ alertLog[i].outcome = "Sent"
        /\ call[c].now >= sess[s].createdAt
        /\ call[c].now < sess[s].deadline
        /\ voiceLog[c] = "sendAudioToContacts"
        /\ call[c].pc = "done"

\* C31: a response timer is armed (a session becomes pending, or gets its
\* deadline) only by the showDeviationNotification call of a deviation
\* event, resuming after its prompt; a session is opened only by the step
\* that handles a position sample; and a session that has left the pending
\* state (fired, cancelled, failed) stays as it ended.
C31_TimerArmedOnlyByDeviation ==
    [][\A s \in Sessions :
         /\ ( \/ sess'[s].phase = "pending" /\ sess[s].phase /= "pending"
              \/ sess'[s].deadline /= sess[s].deadline )
            => /\ sess[s].phase = "scheduling"
               /\ sess[s].deadline = 0
               /\ sess'[s].deadline = now + 30000
         /\ (sess'[s].phase = "scheduling" /\ sess[s].phase /= "scheduling")
            => /\ sess[s].phase = "idle"
               /\ ev'.type \in {"simulate", "feed"}
         /\ sess[s].phase \notin {"idle", "scheduling", "pending"}
            => sess'[s].phase = sess[s].phase
      ]_vars

\* the timer of a session has fired, and the user answers its prompt
\* afterwards: the session stays fired
C31_Witness ==
    \E s \in Sessions :
        /\ sess[s].phase = "fired"
        /\ ev = [type |-> "SEND_ALERT", session |-> s]
        /\ responseTimer = 0

\* C32: once the response timer of a session has fired or been cancelled,
\* the controller holds no handle of it: whenever responseTimer.current is
\* set, it is the handle of a timer that is still armed.
C32_NoHandleAfterTerminal ==
    responseTimer /= 0 => sess[responseTimer].phase = "pending"

\* C33: startListening is idempotent while listening: whatever calls of
\* startListening were made, overlapping or not, exactly one interval is
\* set while the service listens, and none is left once stopListening has
\* run.
C33_OneListeningInterval ==
    /\ sampler.isListening => Cardinality(sampler.intervals) = 1
    /\ ~sampler.isListening => sampler.intervals = {}

\* C37: once stopListening has returned (isListening is false) no full
\* recording is begun by the sampling loop and none is dispatched, also
\* when an interval callback was suspended at that moment.
C37_NothingStartsAfterStop ==
    [][~sampler'.isListening =>
          /\ sampler'.recording \in {NoRecorder, sampler.recording}
          /\ \A k \in DOMAIN sampler.log :
                sampler'.log[k] = "sendAudioToContacts"
                   => sampler.log[k] = "sendAudioToContacts"
      ]_vars

\* C34: a response to the prompt of a session that has already ended is
\* applied to that session only: it cancels the response timer of no other
\* session that is pending.
C34_ResponseAppliesToItsSession ==
    [][\A s \in Sessions, t \in Sessions :
          ( /\ ev'.type \in ActionIds
            /\ ev'.session = s
            /\ ~Open(s)
            /\ t /= s
            /\ sess[t].phase = "pending" )
          => sess'[t].phase = "pending"
      ]_vars

\* C35: the response timer of a pending session is cancelled by a response
\* only when the response carries SEND_ALERT or IM_SAFE; after any other
\* response the session is still pending.
C35_OnlyRecognisedActionsCancel ==
    [][\A t \in Sessions :
          (sess[t].phase = "pending" /\ sess'[t].phase = "cancelledByResponse")
          => ev'.type \in {"SEND_ALERT", "IM_SAFE"}
      ]_vars

\* C36: when scheduling the prompt of a deviation event fails, the step
\* that handles the failure invokes sendEmergencyAlert once, with the
\* coordinate of the event, and arms no timer; the session is over and no
\* later step adds an invocation for it.
C36_FailedPromptAlertsOnce ==
    [][/\ alertLog' /= alertLog
          => LET a == alertLog'[Len(alertLog')]
             IN  /\ sess[a.session].phase /= "failed"
                 /\ a.cause = "catch"
                    => /\ alertLog' = Append(alertLog, a)
                       /\ a.loc = sess[a.session].loc
                       /\ sess[a.session].phase = "scheduling"
                       /\ sess'[a.session].phase = "failed"
       /\ sess' /= sess
          => \A s \in Sessions :
                /\ ( /\ sess[s].phase = "scheduling"
                     /\ ~sess[s].prompt
                     /\ sess'[s].phase /= "scheduling" )
                   => /\ Len(alertLog') = Len(alertLog) + 1
                      /\ alertLog'[Len(alertLog')].session = s
                      /\ alertLog'[Len(alertLog')].cause = "catch"
                      /\ sess'[s].phase = "failed"
                      /\ sess'[s].deadline = 0
                      /\ responseTimer' = responseTimer
                /\ sess[s].phase = "failed" => sess'[s] = sess[s]
      ]_vars

C36_Witness ==
    /\ sess[1].phase = "failed"
    /\ Len(alertLog) = 1
    /\ alertLog[1].session = 1
    /\ alertLog[1].cause = "catch"
    /\ alertLog[1].loc = sess[1].loc
    /\ ev = [type |-> "SEND_ALERT", session |-> 2]

\* C38: lastRecordingTime is written only by the step in which startAsync
\* of a call has succeeded, and then holds the time that call was made; a
\* call that is rejected by the guard, refused permission or fails in
\* prepare or start leaves it as it was.
C38_DebounceOpenedByStartOnly ==
    [][/\ lastRecordingTime' /= lastRecordingTime
          => \E c \in Calls :
                /\ call[c].pc = "startAsync"
                /\ call'[c].pc = "timer"
                /\ recorder'[call[c].obj].status = "recording"
                /\ isRecording'
                /\ lastRecordingTime' = call[c].now
       /\ \A c \in Calls :
             ( /\ call'[c].pc /= call[c].pc
               /\ call'[c].pc \in {"debounced", "denied", "catchCleanup",
                                   "failed"} )
             => lastRecordingTime' = lastRecordingTime
      ]_vars

C38_Witness ==
    /\ call[1].pc = "failed"
    /\ ~call[1].started
    /\ call[2].pc = "timer"
    /\ call[2].now > call[1].now
    /\ call[2].now - call[1].now < 16000
    /\ lastRecordingTime = call[2].now

\* C39: the step in which startFullRecording learns that permission is
\* denied changes nothing but the call itself, and the call is over: it
\* has created no recorder, has no recording timer and dispatches nothing,
\* then or later.
C39_DeniedPermissionChangesNothing ==
    [][\A c \in Calls :
          /\ (call[c].pc = "requestPermissions" /\ call'[c].pc = "denied")
             => /\ recording' = recording
                /\ isRecording' = isRecording
                /\ recorder' = recorder
                /\ lastRecordingTime' = lastRecordingTime
                /\ voiceLog' = voiceLog
                /\ \A d \in Calls \ {c} : call'[d] = call[d]
          /\ call[c].pc = "denied"
             => /\ call'[c] = call[c]
                /\ call[c].due = 0
                /\ ~call[c].started
                /\ recorder'[c].status = "none"
                /\ voiceLog'[c] = "none"
                /\ recording' /= c
      ]_vars

C39_Witness ==
    /\ call[1].pc = "denied"
    /\ recorder[1].status = "none"
    /\ voiceLog[1] = "none"
    /\ isRecording = FALSE
    /\ call[2].pc = "done"
    /\ voiceLog[2] = "sendAudioToContacts"

\* C40: the numbers sendEmergencyAlert passes to sendSMSAsync are one per
\* contact, in contact order; each begins with '+': a contact number that
\* begins with '+' is passed as it is, any other with '+91' put before it.
C40_NumbersCarryCountryCode ==
    dispatchCall.who = "sendEmergencyAlert"
    => \A k \in DOMAIN smsCalls :
          LET numbers == smsCalls[k].numbers
              contacts == dispatchCall.contacts
          IN  /\ Len(numbers) = Len(contacts)
              /\ \A i \in DOMAIN contacts :
                    /\ Head(numbers[i]) = "+"
                    /\ IF Len(contacts[i]) > 0 /\ Head(contacts[i]) = "+"
                       THEN numbers[i] = contacts[i]
                       ELSE /\ SubSeq(numbers[i], 1, 2) = <<"+", "91">>
                            /\ SubSeq(numbers[i], 3, Len(numbers[i]))
                                  = contacts[i]

C40_Witness ==
    /\ dispatchCall.who = "sendEmergencyAlert"
    /\ dispatchPc = "returned"
    /\ channel.result = "sent"
    /\ dispatchCall.contacts = <<<<"+", "919000000002">>, <<"9000000001">>>>
    /\ smsCalls[1].numbers
          = <<<<"+", "919000000002">>, <<"+", "91", "9000000001">>>>

====
